---- MODULE Spec2Model ----
(***************************************************************************)
(* A model of captbaritone/indigo: the WebAssembly module builder          *)
(* (ModuleContext / FunctionContext / ExpressionContext, src/index.ts and  *)
(* the encoding helpers) and the Mood compiler pipeline built on it        *)
(* (parser, type checker, Wasm emitter).                                   *)
(*                                                                         *)
(* The specifications of the module:                                       *)
(*   Spec      the ModuleContext builder driven by a client as in          *)
(*             src/test.ts: declarations in any order, then compile().     *)
(*   SpecExp   one ExpressionContext receiving instruction calls.          *)
(*   SpecMood  compile(source) of the Mood compiler on a family of small   *)
(*             programs: parse, typeCheck, emit, then the host runs test().*)
(*   SpecLex   Lexer.lex on short codes, character by character            *)
(*             (SpecLexFair: with its steps taken whenever one can be).    *)
(*   SpecLayout the struct cases of the emitter of examples/mood, on every *)
(*             small struct declaration.                                   *)
(*   SpecMeasure parse, typeCheck, then computeLayout (MemoryLayout.ts).   *)
(*   SpecSymbols SymbolTable objects under define, lookup and child calls, *)
(*             and the type checker's use of them on two-function programs.*)
(*   SpecParse Parser.parse on every short token list and on every         *)
(*             beginning of a few programs.                                *)
(***************************************************************************)
EXTENDS Integers, Sequences, FiniteSets, TLC

VARIABLES
  \* ---- ModuleContext (src/index.ts:31-40)
  _funcTypes,   \* FuncType[]            sequence of [params, results]
  _functions,   \* funcidx -> typeidx    sequence of type indices
  _code,        \* FunctionContext[]     sequence of [_params, _results, _locals, exp]
  _exports,     \* Export[]
  _globals,     \* Global[]
  _memories,    \* MemType[]
  _bytes,       \* the output buffer compile() writes
  pc,           \* "building" until the client calls compile(), then "compiled"
  ret,          \* the outcome of the last builder call
  declared,     \* history: one record per declareFunction call, in call order
  localsReturned, \* history: per function, the indices defineLocal returned
  \* ---- ExpressionContext (src/index.ts:506-976)
  expBytes,     \* ExpressionContext._bytes
  expRet,       \* the outcome of the last instruction call
  \* ---- Mood compiler (compile(source), src/unnamed/part_006)
  tokens,       \* the token list lex returned
  stage,        \* "lexed", "parsed", "typed", "emitted", "ran", "failed"
  program,      \* ast: the Program node the parser returned
  nodeTypes,    \* typeTable._astNodes: node-id -> SymbolType
  diag,         \* the DiagnosticError (or internal error) that stopped the compile
  wasm,         \* what the emitter put into the ModuleContext
  testResult,   \* what the exported test() returned when the host ran it
  \* ---- Mood lexer (class Lexer, src/unnamed/part_004:66-274)
  lexer,        \* the Lexer object, the code it was given, and where lex() is
  \* ---- Mood emitter, struct cases (src/examples/mood/WasmEmitter.ts:348-417)
  layout,       \* a declared struct, and the size and offsets emit used for it
  \* ---- Mood memory layout (class MemoryLayout, src/examples/mood/MemoryLayout.ts)
  memoryLayout, \* the MemoryLayout object computeLayout made: _stackSizes
  \* ---- Mood symbol tables (class SymbolTable, src/examples/mood/SymbolTable.ts)
  symbols,      \* the SymbolTable objects made so far, and the last call's outcome
  \* ---- Mood parser (class Parser, src/unnamed/part_007:70-614)
  parser        \* where the Parser object was when parse() ended, and the
                \* history of its loops: which were iterated, and whether an
                \* iteration read a token or threw

builderVars == << _funcTypes, _functions, _code, _exports, _globals, _memories,
                  _bytes, pc, ret, declared, localsReturned >>
expVars     == << expBytes, expRet >>
moodVars    == << tokens, stage, program, nodeTypes, diag, wasm, testResult >>
lexVars     == << lexer >>
layoutVars  == << layout >>
measureVars == << memoryLayout >>
symbolVars  == << symbols >>
parserVars  == << parser >>
vars        == << builderVars, expVars, moodVars, lexVars, layoutVars, measureVars,
                  symbolVars, parserVars >>

----------------------------------------------------------------------------
(* Bounds of the model.                                                    *)

\* The number of things a client puts into one module: functions, locals,
\* instruction calls, exports, globals and memories together.
MaxSize == 4
\* An ExpressionContext whose buffer holds this many bytes gets no further call.
MaxExpBytes == 2
\* The most arguments a Mood program gives an enum variant.
MaxArgs == 3
\* The most calls a Mood program makes after the one whose result it keeps.
MaxLaterCalls == 2

----------------------------------------------------------------------------
(* types.ts                                                                *)

I32 == 127
F64 == 124
FUNC_IDX == 0
MutVAR == 1

----------------------------------------------------------------------------
(* encoding.ts                                                             *)

\* JavaScript's n & 0x7f on a number in the int32 range: the low seven bits.
Low7(n) == n % 128

\* JavaScript's n >>> 7: ToUint32(n) shifted right, so a negative n is read
\* as n + 2^32 and (n + 2^32) div 128 = floor(n / 128) + 2^25.
Ushr7(n) == IF n >= 0 THEN n \div 128 ELSE (n \div 128) + 33554432

RECURSIVE appendU32(_, _)
appendU32(buffer, n) ==
  LET byte == Low7(n)
      rest == Ushr7(n)
  IN  IF rest # 0
        THEN appendU32(Append(buffer, byte + 128), rest)
        ELSE Append(buffer, byte)

\* JavaScript's value >> 7 on an int32: the arithmetic shift, floor(value / 128).
Sar7(value) == value \div 128

\* JavaScript's a | b on two int32 values (two's complement bitwise or).
RECURSIVE BitOr(_, _)
BitOr(a, b) ==
  IF a = 0 THEN b
  ELSE IF b = 0 THEN a
  ELSE IF a = -1 \/ b = -1 THEN -1
  ELSE 2 * BitOr(a \div 2, b \div 2) + (IF a % 2 = 1 \/ b % 2 = 1 THEN 1 ELSE 0)

\* Math.ceil(Math.log2(Math.abs(value))) for a negative int32 value: the least
\* s with 2^s >= -value.  (The value is only read when value < 0.)
RECURSIVE CeilLog2Neg(_, _)
CeilLog2Neg(value, s) ==
  IF s = 31 THEN 31
  ELSE IF -(2 ^ s) <= value THEN s
  ELSE CeilLog2Neg(value, s + 1)

\* -(1 << k) read back as an int32; JavaScript masks a shift count to 5 bits.
NegShl1(k) ==
  LET count == k % 32
  IN  IF count = 31 THEN -2147483647 - 1 ELSE -(2 ^ count)

RECURSIVE appendI32Loop(_, _, _, _)
appendI32Loop(buffer, value, negative, size) ==
  LET byte   == Low7(value)
      shifted == Sar7(value)
      v      == IF negative THEN BitOr(shifted, NegShl1(size - 7)) ELSE shifted
      done   == \/ (v = 0 /\ (byte \div 64) % 2 = 0)
                \/ (v = -1 /\ (byte \div 64) % 2 = 1)
  IN  IF done
        THEN Append(buffer, byte)
        ELSE appendI32Loop(Append(buffer, byte + 128), v, negative, size)

\* appendI32 were the value written as appendU32 writes it.
appendI32_unsigned(buffer, value) == appendU32(buffer, value)

appendI32(buffer, value) ==
  LET negative == value < 0
      size     == IF negative THEN CeilLog2Neg(value, 0) ELSE 0
  IN  appendI32Loop(buffer, value, negative, size)

----------------------------------------------------------------------------
(* ExpressionContext: one method per instruction.  A method call is        *)
(* [m |-> name, args |-> immediates]; ExpApply is what the call does to    *)
(* ExpressionContext._bytes.  No method checks its immediates.             *)

_writeU32(bytes, n) == appendU32(bytes, n)
_writeI32(bytes, n) == appendI32(bytes, n)

\* MemArg ::= align:u32 offset:u32
_writeMemArg(bytes, offset, align) == _writeU32(_writeU32(bytes, align), offset)

\* The opcode byte each method pushes.
Opcode(m) ==
  CASE m = "unreachable"  -> 0
    [] m = "nop"          -> 1
    [] m = "return"       -> 15
    [] m = "call"         -> 16
    [] m = "drop"         -> 26
    [] m = "select"       -> 27
    [] m = "localGet"     -> 32
    [] m = "localSet"     -> 33
    [] m = "localTee"     -> 34
    [] m = "globalGet"    -> 35
    [] m = "globalSet"    -> 36
    [] m = "i32Load"      -> 40
    [] m = "i32Store"     -> 54
    [] m = "i32Const"     -> 65
    [] m = "i32Eq"        -> 70
    [] m = "f64Eq"        -> 91
    [] m = "i32Add"       -> 106
    [] m = "i32Sub"       -> 107
    [] m = "i32Mul"       -> 108
    [] m = "f64Add"       -> 160
    [] m = "f64Sub"       -> 161
    [] m = "f64Mul"       -> 162
    [] m = "i32TruncF64S" -> 170

U32Methods   == {"call", "localGet", "localSet", "localTee", "globalGet", "globalSet"}
MemMethods   == {"i32Load", "i32Store"}
PlainMethods == {"unreachable", "nop", "return", "drop", "select", "i32Eq", "f64Eq",
                 "i32Add", "i32Sub", "i32Mul", "f64Add", "f64Sub", "f64Mul",
                 "i32TruncF64S"}

ExpApply(bytes, c) ==
  LET pushed == Append(bytes, Opcode(c.m))
  IN  CASE c.m \in U32Methods -> _writeU32(pushed, c.args[1])
        [] c.m \in MemMethods -> _writeMemArg(pushed, c.args[1], c.args[2])
        [] c.m = "i32Const"   -> _writeI32(pushed, c.args[1])
        [] OTHER              -> pushed

Call(m, args) == [m |-> m, args |-> args]

----------------------------------------------------------------------------
(* ModuleContext: function-type interning                                  *)

RECURSIVE resultTypesAreEqualFrom(_, _, _)
resultTypesAreEqualFrom(a, b, i) ==
  IF i > Len(a) THEN TRUE
  ELSE IF a[i] # b[i] THEN FALSE
  ELSE resultTypesAreEqualFrom(a, b, i + 1)

resultTypesAreEqual(a, b) ==
  IF Len(a) # Len(b) THEN FALSE ELSE resultTypesAreEqualFrom(a, b, 1)

\* funcTypesAreEqual were the parameter types not compared.
funcTypesAreEqual_resultsOnly(a, b) == resultTypesAreEqual(a.results, b.results)

funcTypesAreEqual(a, b) ==
  resultTypesAreEqual(a.results, b.results) /\ resultTypesAreEqual(a.params, b.params)

\* Array.prototype.findIndex with funcTypesAreEqual: the 0-based index of the
\* first equal entry, or -1.
RECURSIVE findFuncTypeFrom(_, _, _)
findFuncTypeFrom(types, funcType, i) ==
  IF i > Len(types) THEN -1
  ELSE IF funcTypesAreEqual(types[i], funcType) THEN i - 1
  ELSE findFuncTypeFrom(types, funcType, i + 1)

\* getFunctionTypeIndex: [types |-> the type list afterwards, index |-> returned]
getFunctionTypeIndex(types, funcType) ==
  LET existingFuncTypeIndex == findFuncTypeFrom(types, funcType, 1)
  IN  IF existingFuncTypeIndex # -1
        THEN [types |-> types, index |-> existingFuncTypeIndex]
        ELSE [types |-> Append(types, funcType), index |-> Len(types)]

\* new FunctionContext(ctx, params, results)
NewFunctionContext(params, results) ==
  [_params |-> params, _results |-> results, _locals |-> <<>>, exp |-> <<>>]

getFuncType(func) == [params |-> func._params, results |-> func._results]

\* defineLocal were the index to leave the parameters out.
FuncDefineLocal_ignoringParams(func, type) ==
  [func  |-> [func EXCEPT !._locals = Append(@, [count |-> 1, type |-> type])],
   index |-> Len(func._locals)]

\* FunctionContext.defineLocal: [func |-> the context afterwards, index |-> returned]
FuncDefineLocal(func, type) ==
  [func  |-> [func EXCEPT !._locals = Append(@, [count |-> 1, type |-> type])],
   index |-> Len(func._params) + Len(func._locals)]

\* JavaScript's array[index] == null: no element at that index.
IsNullAt(arr, index) == ~(index >= 0 /\ index < Len(arr))

----------------------------------------------------------------------------
(* ModuleContext.compile: the writers                                      *)

RECURSIVE Flatten(_)
Flatten(ss) == IF ss = <<>> THEN <<>> ELSE Head(ss) \o Flatten(Tail(ss))

\* _writeByteBlock(fn): fn appends to the buffer, then the LEB128 length of
\* what it appended is spliced in at the position where fn started.
\* `after` is the buffer once fn has run on `bytes`.
\* _writeByteBlock were the length written as a single byte.
_writeByteBlock_oneByteLength(bytes, after) ==
  LET start  == Len(bytes)
      end    == Len(after)
      diff   == end - start
      prefix == << Low7(diff) >>
  IN  SubSeq(after, 1, start) \o prefix \o SubSeq(after, start + 1, end)

_writeByteBlock(bytes, after) ==
  LET start  == Len(bytes)
      end    == Len(after)
      diff   == end - start
      prefix == appendU32(<<>>, diff)
  IN  SubSeq(after, 1, start) \o prefix \o SubSeq(after, start + 1, end)

_writeSection(bytes, section, after(_)) ==
  LET withId == Append(bytes, section)
  IN  _writeByteBlock(withId, after(withId))

\* _writeVec(elements, fn): the u32 length, then fn on each element in order;
\* enc[i] is what fn appends for element i.
_writeVec(bytes, elements, enc(_)) ==
  appendU32(bytes, Len(elements))
    \o Flatten([i \in 1..Len(elements) |-> enc(elements[i])])

_writeValType(valType) == << valType >>
_writeResultType(resultType) == _writeVec(<<>>, resultType, _writeValType)
_writeFunctionType(funcType) ==
  << 96 >> \o _writeResultType(funcType.params) \o _writeResultType(funcType.results)
_writeIndex(index) == appendU32(<<>>, index)

_writeLimits(limits) ==
  LET flag == IF limits.hasMax THEN 1 ELSE 0
      min  == appendU32(<< flag >>, limits.min)
  IN  IF limits.hasMax THEN appendU32(min, limits.max) ELSE min

_writeExpression(expression) == Append(expression, 11)

_writeGlobal(global) ==
  << global.globalType.type, global.globalType.mut >> \o _writeExpression(global.init)

_writeCharCode(char) == << char >>
_writeName(name) == _writeVec(<<>>, name, _writeCharCode)
_writeExport(export) ==
  _writeName(export.name) \o << export.exportDesc >> \o _writeIndex(export.index)

_writeLocal(local) == appendU32(<<>>, local.count) \o << local.type >>
_writeLocalDeclarations(locals) == _writeVec(<<>>, locals, _writeLocal)

\* getCode() of a FunctionContext, then _writeCode on it.
_writeCode(func) ==
  _writeByteBlock(<<>>, _writeLocalDeclarations(func._locals) \o _writeExpression(func.exp))

_writeMagic(bytes) == bytes \o << 0, 97, 115, 109 >>
_writeVersion(bytes) == bytes \o << 1, 0, 0, 0 >>

_writeTypesSection(bytes, m) ==
  _writeSection(bytes, 1, LAMBDA b : _writeVec(b, m.funcTypes, _writeFunctionType))
_writeImportsSection(bytes, m) == bytes
_writeFunctionsSection(bytes, m) ==
  _writeSection(bytes, 3, LAMBDA b : _writeVec(b, m.functions, _writeIndex))
_writeMemorySection(bytes, m) ==
  _writeSection(bytes, 5, LAMBDA b : _writeVec(b, m.memories, _writeLimits))
_writeGlobalsSection(bytes, m) ==
  _writeSection(bytes, 6, LAMBDA b : _writeVec(b, m.globals, _writeGlobal))
_writeExportsSection(bytes, m) ==
  _writeSection(bytes, 7, LAMBDA b : _writeVec(b, m.exports, _writeExport))
_writeCodeSection(bytes, m) ==
  _writeSection(bytes, 10, LAMBDA b : _writeVec(b, m.code, _writeCode))

\* compile() were the exports section written before the globals section.
compileBytes_exportsBeforeGlobals(bytes, m) ==
  LET b1 == _writeVersion(_writeMagic(bytes))
      b2 == _writeTypesSection(b1, m)
      b4 == _writeFunctionsSection(b2, m)
      b5 == _writeMemorySection(b4, m)
      b6 == _writeExportsSection(b5, m)
      b7 == _writeGlobalsSection(b6, m)
  IN  _writeCodeSection(b7, m)

\* compile(): the buffer after the preamble and the sections, in the order
\* the calls are written.
compileBytes(bytes, m) ==
  LET b1 == _writeVersion(_writeMagic(bytes))
      b2 == _writeTypesSection(b1, m)
      b3 == _writeImportsSection(b2, m)
      b4 == _writeFunctionsSection(b3, m)
      b5 == _writeMemorySection(b4, m)
      b6 == _writeGlobalsSection(b5, m)
      b7 == _writeExportsSection(b6, m)
  IN  _writeCodeSection(b7, m)

----------------------------------------------------------------------------
(* The ModuleContext builder and its client                                *)

\* What the client declares and defines with.
FuncDecls ==
  { [params |-> <<>>,         results |-> << I32 >>],
    [params |-> << I32, I32 >>, results |-> << I32 >>],
    [params |-> << I32, I32 >>, results |-> << F64 >>] }

\* defineFunction callbacks: the calls cb makes on the FunctionContext it is
\* given (func.exp.<method>(...) or func.defineLocal(type)), in order.
Callbacks ==
  { << Call("i32Const", << 10 >>) >>,
    << Call("call", << 0 >>) >>,
    << Call("call", << 1 >>) >>,
    << Call("defineLocal", << I32 >>) >>,
    << Call("defineLocal", << F64 >>) >>,
    [i \in 1..22 |-> Call("i32Const", << 1073741824 >>)] }

ExportNames == { << 102 >> }
Globals == { [globalType |-> [type |-> I32, mut |-> MutVAR], init |-> << 65, 1 >>] }
MemTypes == { [min |-> 10, hasMax |-> FALSE, max |-> 0] }

\* The locals and body bytes of all functions together.
RECURSIVE BodySize(_)
BodySize(code) ==
  IF code = <<>> THEN 0
  ELSE Len(Head(code)._locals) + Len(Head(code).exp) + BodySize(Tail(code))

Size ==
  Len(_functions) + Len(_exports) + Len(_globals) + Len(_memories)
    + BodySize(_code)

NoRet == [op |-> "none", value |-> -1, threw |-> FALSE, index |-> -1]

BuilderInit ==
  /\ _funcTypes = <<>>
  /\ _functions = <<>>
  /\ _code = <<>>
  /\ _exports = <<>>
  /\ _globals = <<>>
  /\ _memories = <<>>
  /\ _bytes = <<>>
  /\ pc = "building"
  /\ ret = NoRet
  /\ declared = <<>>
  /\ localsReturned = <<>>

ExpInit ==
  /\ expBytes = <<>>
  /\ expRet = [m |-> "none", args |-> <<>>, threw |-> FALSE, before |-> <<>>]

MoodIdle ==
  /\ tokens = <<>>
  /\ stage = "idle"
  /\ program = [type |-> "null"]
  /\ nodeTypes = <<>>
  /\ diag = [at |-> "none"]
  /\ wasm = [bytes |-> <<>>]
  /\ testResult = [kind |-> "none"]

\* No Lexer has been constructed.
LexIdle == lexer = [at |-> "idle"]

\* No struct has been handed to the emitter.
LayoutIdle == layout = [at |-> "idle"]

\* computeLayout has not been called.
MeasureIdle == memoryLayout = [at |-> "idle"]

\* No SymbolTable has been constructed.
SymbolsIdle == symbols = [at |-> "idle"]
ParserIdle == parser = [at |-> "idle"]

Init ==
  BuilderInit /\ ExpInit /\ MoodIdle /\ LexIdle /\ LayoutIdle /\ MeasureIdle /\ SymbolsIdle
  /\ ParserIdle

\* declareFunction were the returned index read after the push.
declareFunction_indexAfterPush(func) ==
  /\ pc = "building"
  /\ Size < MaxSize
  /\ LET functionContext == NewFunctionContext(func.params, func.results)
         interned        == getFunctionTypeIndex(_funcTypes, getFuncType(functionContext))
         nextFuncIndex   == Len(_functions) + 1
     IN  /\ _funcTypes' = interned.types
         /\ _functions' = Append(_functions, interned.index)
         /\ _code' = Append(_code, functionContext)
         /\ ret' = [op |-> "declareFunction", value |-> nextFuncIndex,
                    threw |-> FALSE, index |-> -1]
         /\ declared' = Append(declared, [params |-> func.params,
                                          results |-> func.results,
                                          index |-> nextFuncIndex])
         /\ localsReturned' = Append(localsReturned, <<>>)
  /\ UNCHANGED << _exports, _globals, _memories, _bytes, pc, expVars, moodVars, lexVars, layoutVars, measureVars,
                  symbolVars, parserVars >>

\* declareFunction(func): intern the type, push the type index and a fresh
\* FunctionContext, return the function index.
declareFunction(func) ==
  /\ pc = "building"
  /\ Size < MaxSize
  /\ LET functionContext == NewFunctionContext(func.params, func.results)
         interned        == getFunctionTypeIndex(_funcTypes, getFuncType(functionContext))
         nextFuncIndex   == Len(_functions)
     IN  /\ _funcTypes' = interned.types
         /\ _functions' = Append(_functions, interned.index)
         /\ _code' = Append(_code, functionContext)
         /\ ret' = [op |-> "declareFunction", value |-> nextFuncIndex,
                    threw |-> FALSE, index |-> -1]
         /\ declared' = Append(declared, [params |-> func.params,
                                          results |-> func.results,
                                          index |-> nextFuncIndex])
         /\ localsReturned' = Append(localsReturned, <<>>)
  /\ UNCHANGED << _exports, _globals, _memories, _bytes, pc, expVars, moodVars, lexVars, layoutVars, measureVars,
                  symbolVars, parserVars >>

exportFunction(name, index) ==
  /\ pc = "building"
  /\ Size < MaxSize
  /\ _exports' = Append(_exports, [name |-> name, exportDesc |-> FUNC_IDX, index |-> index])
  /\ ret' = [op |-> "exportFunction", value |-> -1, threw |-> FALSE, index |-> index]
  /\ UNCHANGED << _funcTypes, _functions, _code, _globals, _memories, _bytes, pc,
                  declared, localsReturned, expVars, moodVars, lexVars, layoutVars, measureVars,
                  symbolVars, parserVars >>

\* What one call of a callback does to the FunctionContext it was given:
\* [func |-> the context afterwards, returned |-> the indices defineLocal returned]
CallbackStep(st, c) ==
  IF c.m = "defineLocal"
    THEN LET r == FuncDefineLocal(st.func, c.args[1])
         IN  [func |-> r.func, returned |-> Append(st.returned, r.index)]
    ELSE [func |-> [st.func EXCEPT !.exp = ExpApply(@, c)], returned |-> st.returned]

RECURSIVE RunCallback(_, _)
RunCallback(st, cb) ==
  IF cb = <<>> THEN st ELSE RunCallback(CallbackStep(st, Head(cb)), Tail(cb))

\* defineFunction(index, cb): look the FunctionContext up, throw if there is
\* none, otherwise hand it to cb.
defineFunction(index, cb) ==
  /\ pc = "building"
  /\ IF IsNullAt(_code, index)
       THEN /\ ret' = [op |-> "defineFunction", value |-> -1, threw |-> TRUE,
                       index |-> index]
            /\ UNCHANGED << _code, localsReturned >>
       ELSE /\ Size < MaxSize
            /\ LET done == RunCallback([func |-> _code[index + 1], returned |-> <<>>], cb)
               IN  /\ _code' = [_code EXCEPT ![index + 1] = done.func]
                   /\ localsReturned' =
                        [localsReturned EXCEPT ![index + 1] = @ \o done.returned]
                   /\ ret' = [op |-> "defineFunction",
                              value |-> IF done.returned = <<>> THEN -1
                                        ELSE done.returned[Len(done.returned)],
                              threw |-> FALSE, index |-> index]
  /\ UNCHANGED << _funcTypes, _functions, _exports, _globals, _memories, _bytes, pc,
                  declared, expVars, moodVars, lexVars, layoutVars, measureVars,
                  symbolVars, parserVars >>

declareGlobal(global) ==
  /\ pc = "building"
  /\ Size < MaxSize
  /\ _globals' = Append(_globals, global)
  /\ ret' = [op |-> "declareGlobal", value |-> Len(_globals), threw |-> FALSE,
             index |-> -1]
  /\ UNCHANGED << _funcTypes, _functions, _code, _exports, _memories, _bytes, pc,
                  declared, localsReturned, expVars, moodVars, lexVars, layoutVars, measureVars,
                  symbolVars, parserVars >>

\* defineMemory were the test for an existing memory missing.
defineMemory_unguarded(mem) ==
  /\ pc = "building"
  /\ Size < MaxSize
  /\ _memories' = Append(_memories, mem)
  /\ ret' = [op |-> "defineMemory", value |-> Len(_memories), threw |-> FALSE,
             index |-> -1]
  /\ UNCHANGED << _funcTypes, _functions, _code, _exports, _globals, _bytes, pc,
                  declared, localsReturned, expVars, moodVars, lexVars, layoutVars, measureVars,
                  symbolVars, parserVars >>

\* defineMemory(mem): only one memory is allowed.
defineMemory(mem) ==
  /\ pc = "building"
  /\ LET index == Len(_memories)
     IN  IF index > 0
           THEN /\ ret' = [op |-> "defineMemory", value |-> -1, threw |-> TRUE,
                           index |-> -1]
                /\ UNCHANGED _memories
           ELSE /\ Size < MaxSize
                /\ _memories' = Append(_memories, mem)
                /\ ret' = [op |-> "defineMemory", value |-> index, threw |-> FALSE,
                           index |-> -1]
  /\ UNCHANGED << _funcTypes, _functions, _code, _exports, _globals, _bytes, pc,
                  declared, localsReturned, expVars, moodVars, lexVars, layoutVars, measureVars,
                  symbolVars, parserVars >>

\* compile(): the client's last call (src/index.ts:26-27, src/test.ts).
compile ==
  /\ pc = "building"
  /\ _bytes' = compileBytes(_bytes, [funcTypes |-> _funcTypes, functions |-> _functions,
                                     memories |-> _memories, globals |-> _globals,
                                     exports |-> _exports, code |-> _code])
  /\ pc' = "compiled"
  /\ ret' = [op |-> "compile", value |-> -1, threw |-> FALSE, index |-> -1]
  /\ UNCHANGED << _funcTypes, _functions, _code, _exports, _globals, _memories,
                  declared, localsReturned, expVars, moodVars, lexVars, layoutVars, measureVars,
                  symbolVars, parserVars >>

Next ==
  \/ \E func \in FuncDecls : declareFunction(func)
  \/ \E name \in ExportNames, index \in 0..1 : exportFunction(name, index)
  \/ \E index \in -1..Len(_code), cb \in Callbacks : defineFunction(index, cb)
  \/ \E global \in Globals : declareGlobal(global)
  \/ \E mem \in MemTypes : defineMemory(mem)
  \/ compile

Spec == Init /\ [][Next]_vars

----------------------------------------------------------------------------
(* One ExpressionContext receiving instruction calls                       *)

U32Immediates == { -1, 0, 1, 128 }
\* i32Const is given the small values, 5000, and the values around every power
\* of two up to both ends of the int32 range.
I32Immediates ==
  (-130..130) \cup { 5000, 2147483647, -2147483647, -2147483647 - 1 }
    \cup UNION { { 2 ^ k, 2 ^ k - 1, 2 ^ k + 1, -(2 ^ k), -(2 ^ k) - 1, -(2 ^ k) + 1 } :
                  k \in 0..30 }
MemArgs       == { << 0, 0 >>, << 4, 0 >>, << -1, 0 >> }

\* A method call on the ExpressionContext: push the opcode, write the
\* immediates, return.  expRet keeps the call and the buffer before it.
ExpCall(c) ==
  /\ Len(expBytes) < MaxExpBytes
  /\ expBytes' = ExpApply(expBytes, c)
  /\ expRet' = [m |-> c.m, args |-> c.args, threw |-> FALSE, before |-> expBytes]
  /\ UNCHANGED << builderVars, moodVars, lexVars, layoutVars, measureVars,
                  symbolVars, parserVars >>

unreachable  == ExpCall(Call("unreachable", <<>>))
nop          == ExpCall(Call("nop", <<>>))
return       == ExpCall(Call("return", <<>>))
call(index)  == ExpCall(Call("call", << index >>))
drop         == ExpCall(Call("drop", <<>>))
select       == ExpCall(Call("select", <<>>))
localGet(index)  == ExpCall(Call("localGet", << index >>))
localSet(index)  == ExpCall(Call("localSet", << index >>))
localTee(index)  == ExpCall(Call("localTee", << index >>))
globalGet(index) == ExpCall(Call("globalGet", << index >>))
globalSet(index) == ExpCall(Call("globalSet", << index >>))
i32Load(offset, align)  == ExpCall(Call("i32Load", << offset, align >>))
i32Store(offset, align) == ExpCall(Call("i32Store", << offset, align >>))
i32Const(n)  == ExpCall(Call("i32Const", << n >>))
i32Eq        == ExpCall(Call("i32Eq", <<>>))
f64Eq        == ExpCall(Call("f64Eq", <<>>))
i32Add       == ExpCall(Call("i32Add", <<>>))
i32Sub       == ExpCall(Call("i32Sub", <<>>))
i32Mul       == ExpCall(Call("i32Mul", <<>>))
f64Add       == ExpCall(Call("f64Add", <<>>))
f64Sub       == ExpCall(Call("f64Sub", <<>>))
f64Mul       == ExpCall(Call("f64Mul", <<>>))
i32TruncF64S == ExpCall(Call("i32TruncF64S", <<>>))

NextExp ==
  \/ unreachable \/ nop \/ return \/ drop \/ select
  \/ \E index \in U32Immediates :
       \/ call(index)
       \/ localGet(index) \/ localSet(index) \/ localTee(index)
       \/ globalGet(index) \/ globalSet(index)
  \/ \E a \in MemArgs : i32Load(a[1], a[2]) \/ i32Store(a[1], a[2])
  \/ \E n \in I32Immediates : i32Const(n)
  \/ i32Eq \/ f64Eq \/ i32Add \/ i32Sub \/ i32Mul
  \/ f64Add \/ f64Sub \/ f64Mul \/ i32TruncF64S

SpecExp == Init /\ [][NextExp]_vars

----------------------------------------------------------------------------
(* Reading a compiled module back, the way a WebAssembly decoder does      *)

\* The LEB128-u32 starting at bytes[pos]: [ok, value, next].  A number that
\* runs past the end, or whose fifth byte goes on or holds more than the bits
\* a length can have here, is not read.
RECURSIVE ReadU32(_, _, _, _)
ReadU32(bytes, pos, mult, acc) ==
  IF pos > Len(bytes) THEN [ok |-> FALSE, value |-> 0, next |-> pos]
  ELSE IF mult = 268435456 /\ bytes[pos] > 7
    THEN [ok |-> FALSE, value |-> 0, next |-> pos]
  ELSE LET b   == bytes[pos]
           sum == acc + (b % 128) * mult
       IN  IF b >= 128 THEN ReadU32(bytes, pos + 1, mult * 128, sum)
           ELSE [ok |-> TRUE, value |-> sum, next |-> pos + 1]

Malformed == [id |-> -1, body |-> <<>>]

\* The sections from bytes[pos] on: one [id, body] per section; a section that
\* does not fit its length prefix reads as Malformed.
RECURSIVE ReadSections(_, _)
ReadSections(bytes, pos) ==
  IF pos = Len(bytes) + 1 THEN <<>>
  ELSE LET size == ReadU32(bytes, pos + 1, 1, 0)
           stop == size.next + size.value
       IN  IF ~size.ok \/ stop > Len(bytes) + 1 THEN << Malformed >>
           ELSE << [id |-> bytes[pos], body |-> SubSeq(bytes, size.next, stop - 1)] >>
                  \o ReadSections(bytes, stop)

Preamble == << 0, 97, 115, 109, 1, 0, 0, 0 >>
SectionsOf(bytes) == ReadSections(bytes, Len(Preamble) + 1)
SectionBody(bytes, id) ==
  LET secs == SectionsOf(bytes)
      i    == CHOOSE i \in 1..Len(secs) : secs[i].id = id
  IN  secs[i].body

\* The entries of a code section body: a count, then length-prefixed entries.
RECURSIVE ReadEntries(_, _, _)
ReadEntries(body, pos, n) ==
  IF n = 0 THEN <<>>
  ELSE LET size == ReadU32(body, pos, 1, 0)
           stop == size.next + size.value
       IN  IF ~size.ok \/ stop > Len(body) + 1 THEN << << -1 >> >>
           ELSE << SubSeq(body, size.next, stop - 1) >> \o ReadEntries(body, stop, n - 1)

CodeEntries(body) ==
  LET count == ReadU32(body, 1, 1, 0)
  IN  ReadEntries(body, count.next, count.value)

IsSuffix(suffix, seq) ==
  /\ Len(suffix) <= Len(seq)
  /\ SubSeq(seq, Len(seq) - Len(suffix) + 1, Len(seq)) = suffix

----------------------------------------------------------------------------
(* Mood: Location.ts                                                       *)
(* A Position is modelled by its offset: the programs of the model are     *)
(* written on one line, so line = 1 and column = offset + 1.               *)

union(start, end) == [start |-> start.start, end |-> end.end]
lastChar(location) == [start |-> location.end - 1, end |-> location.end]
firstChar(location) == [start |-> location.start, end |-> location.start + 1]

----------------------------------------------------------------------------
(* Mood: the token lists lex returns (lexer.ts)                            *)

\* A token before it has its location.  The value of a Number token is the
\* string of its digits, kept in the field digits as the sequence of them.
Keyword(type) == [type |-> type, value |-> "", digits |-> <<>>]
IdentifierToken(name) == [type |-> "Identifier", value |-> name, digits |-> <<>>]
NumberToken(digits) == [type |-> "Number", value |-> "", digits |-> digits]

\* The number of characters a token was read from.
TokenLength(t) ==
  CASE t.type = "Identifier" -> Len(t.value)
    [] t.type = "Number"     -> Len(t.digits)
    [] OTHER                 -> Len(t.type)

\* Lexer.loc() for each token of a source text that is the tokens' texts
\* joined by single spaces: start.offset is the position the token began at,
\* end.offset the position after it, and EOF is the empty span at the end.
RECURSIVE lexWords(_, _, _)
lexWords(words, position, toks) ==
  IF words = <<>>
    THEN LET end == IF position = 0 THEN 0 ELSE position - 1
         IN  Append(toks, [type |-> "EOF", value |-> "", digits |-> <<>>,
                           loc |-> [start |-> end, end |-> end]])
    ELSE LET t   == Head(words)
             end == position + TokenLength(t)
         IN  lexWords(Tail(words), end + 1,
                      Append(toks, [type |-> t.type, value |-> t.value,
                                    digits |-> t.digits,
                                    loc |-> [start |-> position, end |-> end]]))

----------------------------------------------------------------------------
(* Mood: errors.  A throw is a value the operators hand back.              *)

NoLoc == [start |-> -1, end |-> -1]
null == [type |-> "null"]
NoError == [kind |-> "none", message |-> "", loc |-> NoLoc, annotation |-> ""]
\* new DiagnosticError(message, annotate(loc, annotation))
DiagnosticError(message, loc, annotation) ==
  [kind |-> "DiagnosticError", message |-> message, loc |-> loc,
   annotation |-> annotation]
\* new Error(message), and the TypeError the runtime throws
Error(message) ==
  [kind |-> "Error", message |-> message, loc |-> NoLoc, annotation |-> ""]
TypeError(message) ==
  [kind |-> "TypeError", message |-> message, loc |-> NoLoc, annotation |-> ""]

----------------------------------------------------------------------------
(* Mood: Parser.ts.  P is the Parser object, with the error it threw if    *)
(* it threw one; every method hands back [P, node].  A method given a      *)
(* parser that has thrown does nothing, which is how the throw unwinds.    *)

MAX_BINDING_POWER == 10

\* iterated is history: the loops of which an iteration ended, with whether
\* the iteration read a token and whether it threw.
Parser(toks) ==
  [_tokens |-> toks, _nextIndex |-> 0, _nextNodeId |-> 0, thrown |-> NoError,
   iterated |-> {}]
Threw(P) == P.thrown.kind # "none"
throw(P, error) == [P EXCEPT !.thrown = error]
Ret(P, node) == [P |-> P, node |-> node]

\* The end of an iteration of a loop that began with _nextIndex = before.
iteration(P, loop, before) ==
  [P EXCEPT !.iterated = @ \cup { [loop     |-> loop,
                                   consumed |-> P._nextIndex > before,
                                   threw    |-> Threw(P)] }]

peek(P) == P._tokens[P._nextIndex + 1]
next(P) == [P EXCEPT !._nextIndex = @ + 1]
nextLoc(P) == peek(P).loc
prevLoc(P) == P._tokens[P._nextIndex].loc
locToPrev(P, start) == union(start, prevLoc(P))
\* nextNodeId were the counter left as it is.
nextNodeId_noIncrement(P) == P

\* The id handed out is P._nextNodeId.
nextNodeId(P) == [P EXCEPT !._nextNodeId = @ + 1]

\* expect were to read the token before it looks at its type.
expect_readsBeforeItChecks(P, type) ==
  IF Threw(P) THEN P
  ELSE IF peek(P).type = type THEN next(P)
  ELSE throw(next(P), DiagnosticError(
         "Expected " \o type \o " but found \"" \o peek(P).type \o "\"",
         nextLoc(P),
         "Expected " \o type \o " but found \"" \o peek(P).type \o "\""))

expect(P, type) ==
  IF Threw(P) THEN P
  ELSE IF peek(P).type = type THEN next(P)
  ELSE throw(P, DiagnosticError(
         "Expected " \o type \o " but found \"" \o peek(P).type \o "\"",
         nextLoc(P),
         "Expected " \o type \o " but found \"" \o peek(P).type \o "\""))

getOperatorBindingPower(op) ==
  CASE op = "+"  -> 0
    [] op = "*"  -> 1
    [] op = "==" -> 2

peekBinaryOperator(P) == peek(P).type \in {"+", "*", "=="}

peekLiteral(P) ==
  LET t == peek(P)
  IN  \/ t.type = "Number"
      \/ (t.type = "Identifier" /\ t.value = "true")
      \/ (t.type = "Identifier" /\ t.value = "false")

\* const name = value; body: the value is computed once and body reads it by
\* its name.
Let(value, body(_)) == body(value)

parseIdentifier(P) ==
  Let(expect(P, "Identifier"), LAMBDA P1 :
    IF Threw(P1) THEN Ret(P1, null)
    ELSE Ret(nextNodeId(P1),
             [type |-> "Identifier", name |-> peek(P).value, loc |-> peek(P).loc,
              nodeId |-> P1._nextNodeId]))

\* parseFloat on a string of digits, and on digits "." digits: a number is
\* [whole, frac] with the fraction's trailing zeros gone.
RECURSIVE parseDigits(_, _)
parseDigits(digits, acc) ==
  IF digits = <<>> THEN acc ELSE parseDigits(Tail(digits), 10 * acc + Head(digits))

RECURSIVE stripZeros(_)
stripZeros(digits) ==
  IF digits # <<>> /\ digits[Len(digits)] = 0
    THEN stripZeros(SubSeq(digits, 1, Len(digits) - 1))
    ELSE digits

parseFloat(digits, decimal) ==
  [typeof |-> "number", whole |-> parseDigits(digits, 0), frac |-> stripZeros(decimal)]

parseNumber(P) ==
  Let(expect(P, "Number"), LAMBDA P1 :
    IF Threw(P1) THEN Ret(P1, null)
    ELSE IF peek(P1).type = "."
      THEN Let(expect(next(P1), "Number"), LAMBDA P3 :
             IF Threw(P3) THEN Ret(P3, null)
             ELSE Ret(P3, parseFloat(peek(P).digits, peek(next(P1)).digits)))
      ELSE Ret(P1, parseFloat(peek(P).digits, <<>>)))

parseNumericType(P) ==
  Let(parseIdentifier(P), LAMBDA id :
    IF Threw(id.P) THEN id
    ELSE IF id.node.name \in {"i32", "f64"} THEN id
    ELSE Ret(throw(id.P, DiagnosticError("Expected a numeric type", id.node.loc, "")),
             null))

parseLiteral(P) ==
  LET start == nextLoc(P)
      tok   == peek(P)
  IN  IF tok.type = "Number"
        THEN Let(parseNumber(P), LAMBDA value :
               IF Threw(value.P) THEN Ret(value.P, null)
               ELSE IF peek(value.P).type # "_"
                 THEN Ret(throw(value.P, DiagnosticError(
                            "Expected a number literal to be followed by a type hint.",
                            firstChar(peek(value.P).loc),
                            "Expected a numeric type hint like \"_i32\" or \"_f32\"")),
                          null)
               ELSE Let(parseNumericType(next(value.P)), LAMBDA annotation :
                      IF Threw(annotation.P) THEN Ret(annotation.P, null)
                      ELSE Ret(nextNodeId(annotation.P),
                               [type |-> "Literal", value |-> value.node,
                                annotation |-> annotation.node,
                                loc |-> locToPrev(annotation.P, start),
                                nodeId |-> annotation.P._nextNodeId])))
      ELSE IF tok.type = "Identifier" /\ tok.value \in {"true", "false"}
        THEN LET annotation == [type |-> "Identifier", name |-> "bool",
                                loc |-> tok.loc, nodeId |-> P._nextNodeId]
                 P1 == next(nextNodeId(P))
             IN  Ret(nextNodeId(P1),
                     [type |-> "Literal",
                      value |-> [typeof |-> "boolean", bool |-> (tok.value = "true")],
                      annotation |-> annotation,
                      loc |-> locToPrev(P1, start),
                      nodeId |-> P1._nextNodeId])
      ELSE Ret(throw(P, Error("Expected a literal, got \"" \o tok.type \o "\"")), null)

parseStructField(P) ==
  Let(parseIdentifier(P), LAMBDA id :
  Let(parseIdentifier(expect(id.P, ":")), LAMBDA annotation :
    IF Threw(annotation.P) THEN Ret(annotation.P, null)
    ELSE Ret(annotation.P,
             [type |-> "StructField", id |-> id.node, annotation |-> annotation.node,
              loc |-> locToPrev(annotation.P, nextLoc(P))])))

parseParameter(P) ==
  Let(parseIdentifier(P), LAMBDA name :
  Let(parseIdentifier(expect(name.P, ":")), LAMBDA annotation :
    IF Threw(annotation.P) THEN Ret(annotation.P, null)
    ELSE Ret(nextNodeId(annotation.P),
             [type |-> "Parameter", name |-> name.node,
              annotation |-> annotation.node,
              loc |-> locToPrev(annotation.P, nextLoc(P)),
              nodeId |-> annotation.P._nextNodeId])))

parseVariantDeclaration(P) ==
  Let(parseIdentifier(P), LAMBDA id :
  Let(~Threw(id.P) /\ peek(id.P).type = "(", LAMBDA hasValue :
  Let(IF hasValue THEN parseIdentifier(next(id.P)) ELSE Ret(id.P, null), LAMBDA valueType :
  Let(IF hasValue THEN expect(valueType.P, ")") ELSE id.P, LAMBDA P1 :
    IF Threw(P1) THEN Ret(P1, null)
    ELSE Ret(P1, [type |-> "Variant", id |-> id.node,
                  valueType |-> valueType.node,
                  loc |-> locToPrev(P1, nextLoc(P))])))))

RECURSIVE parseExpression(_, _), parseExpressionLoop(_, _, _),
          parseExpressionImpl(_), parseBinaryExpression(_, _, _),
          parseItems(_, _, _, _, _), parseBlockExpression(_),
          parseStructConstruction(_, _), parseStructFieldConstruction(_),
          parseCallExpression(_, _), parseExpressionList(_),
          parseVariableDeclaration(_)

\* The loop every list is parsed with:
\*   while (peek().type !== close && peek().type !== "EOF") {
\*     items.push(parse<item>()); if (peek().type === separator) next(); }
parseItem(P, item) ==
  CASE item = "Expression"              -> parseExpression(P, MAX_BINDING_POWER)
    [] item = "StructFieldConstruction" -> parseStructFieldConstruction(P)
    [] item = "StructField"             -> parseStructField(P)
    [] item = "Parameter"               -> parseParameter(P)
    [] item = "Variant"                 -> parseVariantDeclaration(P)

parseItems(P, item, close, separator, items) ==
  IF Threw(P) \/ peek(P).type = close \/ peek(P).type = "EOF"
    THEN Ret(P, items)
    ELSE Let(parseItem(P, item), LAMBDA one :
           parseItems(iteration(IF ~Threw(one.P) /\ peek(one.P).type = separator
                                  THEN next(one.P) ELSE one.P,
                                item \o " " \o close, P._nextIndex),
                      item, close, separator, Append(items, one.node)))

parseExpression(P, bindingPower) ==
  Let(parseExpressionImpl(P), LAMBDA exp :
    parseExpressionLoop(exp.P, exp.node, bindingPower))

\* while (peekBinaryOperator()) { ... } of parseExpression
parseExpressionLoop(P, exp, bindingPower) ==
  IF Threw(P) \/ ~peekBinaryOperator(P) THEN Ret(P, exp)
  ELSE Let(getOperatorBindingPower(peek(P).type), LAMBDA operatorBindingPower :
         IF bindingPower < operatorBindingPower THEN Ret(P, exp)
         ELSE Let(parseBinaryExpression(P, exp, operatorBindingPower), LAMBDA binary :
                parseExpressionLoop(iteration(binary.P, "infix", P._nextIndex),
                                    binary.node, bindingPower)))

parseMemberExpression(P, head) ==
  Let(parseIdentifier(expect(P, ".")), LAMBDA tail :
    IF Threw(tail.P) THEN Ret(tail.P, null)
    ELSE Ret(nextNodeId(tail.P),
             [type |-> "MemberExpression", head |-> head, tail |-> tail.node,
              loc |-> union(head.loc, tail.node.loc),
              nodeId |-> tail.P._nextNodeId]))

parseExpressionPath(P, head) ==
  Let(parseIdentifier(expect(P, "::")), LAMBDA id :
  Let(IF ~Threw(id.P) /\ peek(id.P).type = "("
        THEN parseCallExpression(id.P, id.node)
        ELSE id, LAMBDA tail :
    IF Threw(tail.P) THEN Ret(tail.P, null)
    ELSE Ret(nextNodeId(tail.P),
             [type |-> "ExpressionPath", head |-> head, tail |-> tail.node,
              loc |-> union(head.loc, tail.node.loc),
              nodeId |-> tail.P._nextNodeId])))

parseExpressionImpl(P) ==
  IF Threw(P) THEN Ret(P, null)
  ELSE IF peek(P).type = "let" THEN parseVariableDeclaration(P)
  ELSE IF peekLiteral(P) THEN parseLiteral(P)
  ELSE IF peek(P).type = "Identifier"
    THEN Let(parseIdentifier(P), LAMBDA identifier :
           CASE peek(identifier.P).type = "{"
                  -> parseStructConstruction(identifier.P, identifier.node)
             [] peek(identifier.P).type = "."
                  -> parseMemberExpression(identifier.P, identifier.node)
             [] peek(identifier.P).type = "::"
                  -> parseExpressionPath(identifier.P, identifier.node)
             [] peek(identifier.P).type = "("
                  -> parseCallExpression(identifier.P, identifier.node)
             [] OTHER -> identifier)
  ELSE IF peek(P).type = "("
    THEN Let(parseExpression(next(P), MAX_BINDING_POWER), LAMBDA exp :
           Ret(expect(exp.P, ")"), exp.node))
  ELSE Ret(throw(P, DiagnosticError("Expected an expression, got " \o peek(P).type,
                                    nextLoc(P), "Found " \o peek(P).type)),
           null)

parseStructConstruction(P, id) ==
  Let(parseItems(expect(P, "{"), "StructFieldConstruction", "}", ",", <<>>),
      LAMBDA fields :
  Let(expect(fields.P, "}"), LAMBDA P1 :
    IF Threw(P1) THEN Ret(P1, null)
    ELSE Ret(nextNodeId(P1),
             [type |-> "StructConstruction", id |-> id, fields |-> fields.node,
              loc |-> locToPrev(P1, id.loc), nodeId |-> P1._nextNodeId])))

parseStructFieldConstruction(P) ==
  Let(parseIdentifier(P), LAMBDA name :
  Let(parseExpression(expect(name.P, ":"), MAX_BINDING_POWER), LAMBDA value :
    IF Threw(value.P) THEN Ret(value.P, null)
    ELSE Ret(nextNodeId(value.P),
             [type |-> "StructFieldConstruction", name |-> name.node,
              value |-> value.node, loc |-> locToPrev(value.P, nextLoc(P)),
              nodeId |-> value.P._nextNodeId])))

parseExpressionList(P) ==
  Let(parseItems(expect(P, "("), "Expression", ")", ",", <<>>), LAMBDA args :
    Ret(expect(args.P, ")"), args.node))

parseCallExpression(P, callee) ==
  Let(parseExpressionList(P), LAMBDA args :
    IF Threw(args.P) THEN Ret(args.P, null)
    ELSE Ret(nextNodeId(args.P),
             [type |-> "CallExpression", callee |-> callee, args |-> args.node,
              loc |-> union(callee.loc, prevLoc(args.P)),
              nodeId |-> args.P._nextNodeId]))

parseVariableDeclaration(P) ==
  Let(parseIdentifier(expect(P, "let")), LAMBDA name :
  Let(parseIdentifier(expect(name.P, ":")), LAMBDA annotation :
  Let(parseExpression(expect(annotation.P, "="), MAX_BINDING_POWER), LAMBDA value :
    IF Threw(value.P) THEN Ret(value.P, null)
    ELSE Ret(nextNodeId(value.P),
             [type |-> "VariableDeclaration", name |-> name.node,
              value |-> value.node, annotation |-> annotation.node,
              loc |-> locToPrev(value.P, nextLoc(P)),
              nodeId |-> value.P._nextNodeId]))))

\* parseOperator() reads the operator token: peekBinaryOperator() held, so it
\* is one of the three.
parseBinaryExpression(P, left, bindingPower) ==
  Let(parseExpression(next(P), bindingPower), LAMBDA right :
    IF Threw(right.P) THEN Ret(right.P, null)
    ELSE Ret(nextNodeId(right.P),
             [type |-> "BinaryExpression", left |-> left, operator |-> peek(P).type,
              right |-> right.node, loc |-> union(left.loc, right.node.loc),
              nodeId |-> right.P._nextNodeId]))

parseBlockExpression(P) ==
  Let(parseItems(expect(P, "{"), "Expression", "}", ";", <<>>), LAMBDA expressions :
  Let(expect(expressions.P, "}"), LAMBDA P1 :
    IF Threw(P1) THEN Ret(P1, null)
    ELSE Ret(nextNodeId(P1),
             [type |-> "BlockExpression", expressions |-> expressions.node,
              loc |-> locToPrev(P1, nextLoc(P)), nodeId |-> P1._nextNodeId])))

parseStructDeclaration(P) ==
  Let(parseIdentifier(expect(P, "struct")), LAMBDA id :
  Let(parseItems(expect(id.P, "{"), "StructField", "}", ",", <<>>), LAMBDA fields :
  Let(expect(fields.P, "}"), LAMBDA P1 :
    IF Threw(P1) THEN Ret(P1, null)
    ELSE Ret(P1, [type |-> "StructDeclaration", id |-> id.node,
                  fields |-> fields.node, loc |-> locToPrev(P1, nextLoc(P))]))))

parseParameterList(P) == parseItems(P, "Parameter", ")", ",", <<>>)

parseFunctionDeclaration(P) ==
  Let(peek(P).type = "pub", LAMBDA pub :
  Let(parseIdentifier(expect(IF pub THEN next(P) ELSE P, "fn")), LAMBDA id :
  Let(parseParameterList(expect(id.P, "(")), LAMBDA params :
  Let(parseIdentifier(expect(expect(params.P, ")"), ":")), LAMBDA returnType :
  Let(parseBlockExpression(returnType.P), LAMBDA body :
    IF Threw(body.P) THEN Ret(body.P, null)
    ELSE Ret(nextNodeId(body.P),
             [type |-> "FunctionDeclaration", id |-> id.node,
              params |-> params.node, body |-> body.node,
              loc |-> locToPrev(body.P, nextLoc(P)), public |-> pub,
              returnType |-> returnType.node, nodeId |-> body.P._nextNodeId]))))))

parseVariantList(P) == parseItems(P, "Variant", "}", ",", <<>>)

parseEnumDeclaration(P) ==
  Let(parseIdentifier(expect(P, "enum")), LAMBDA id :
  Let(parseVariantList(expect(id.P, "{")), LAMBDA variants :
  Let(expect(variants.P, "}"), LAMBDA P1 :
    IF Threw(P1) THEN Ret(P1, null)
    ELSE Ret(P1, [type |-> "EnumDeclaration", id |-> id.node,
                  variants |-> variants.node, loc |-> locToPrev(P1, nextLoc(P))]))))

parseDefinition(P) ==
  CASE peek(P).type = "enum"          -> parseEnumDeclaration(P)
    [] peek(P).type \in {"fn", "pub"} -> parseFunctionDeclaration(P)
    [] peek(P).type = "struct"        -> parseStructDeclaration(P)
    [] OTHER -> Ret(throw(P, DiagnosticError("Expected a definition.", nextLoc(P),
                                             "Found " \o peek(P).type)),
                    null)

\* while (peek().type !== "EOF") body.push(parseDefinition())
RECURSIVE parseProgramLoop(_, _)
parseProgramLoop(P, body) ==
  IF Threw(P) \/ peek(P).type = "EOF" THEN Ret(P, body)
  ELSE Let(parseDefinition(P), LAMBDA definition :
         parseProgramLoop(iteration(definition.P, "Definition", P._nextIndex),
                          Append(body, definition.node)))

\* When no token was read, prevLoc() reads this._tokens[-1].loc, of undefined.
parseProgram(P) ==
  Let(parseProgramLoop(P, <<>>), LAMBDA body :
    IF Threw(body.P) THEN Ret(body.P, null)
    ELSE IF body.P._nextIndex = 0
      THEN Ret(throw(body.P, TypeError(
                 "Cannot read properties of undefined (reading 'loc')")),
               null)
    ELSE Ret(body.P, [type |-> "Program", body |-> body.node,
                      loc |-> locToPrev(body.P, nextLoc(P))]))

\* parse(code), on the tokens lex(code) returned
parse(toks) == parseProgram(Parser(toks))
----------------------------------------------------------------------------
(* Mood: SymbolTable.ts, TypeTable.ts, MemoryLayout.sizeOf                 *)
(* T is the type checker with the scopes it has made and the error it      *)
(* threw if it threw one.  A SymbolTable is a position in T.scopes: its    *)
(* _variables is T.scopes[scope] and its _parent is scope - 1 (the only    *)
(* child scopes are function scopes made from the top scope).              *)

TRet(T, type) == [T |-> T, type |-> type]

\* SymbolTable.define, SymbolTable.lookup, SymbolTable.child
define(T, scope, name, type) == [T EXCEPT !.scopes[scope] = (name :> type) @@ @]

RECURSIVE lookup(_, _, _)
lookup(T, scope, name) ==
  IF scope = 0 THEN null
  ELSE IF name \in DOMAIN T.scopes[scope] THEN T.scopes[scope][name]
  ELSE lookup(T, scope - 1, name)

child(T, scope) == [T EXCEPT !.scopes = Append(SubSeq(@, 1, scope), <<>>)]

\* TypeTable.define
typeAstNode(T, nodeId, type) == [T EXCEPT !._typeTable = (nodeId :> type) @@ @]

\* Returns the size of the given type in bytes.
RECURSIVE sizeOf(_), sizeOfFields(_, _), sizeOfVariants(_, _)
sizeOfFields(fields, i) ==
  IF i > Len(fields) THEN 0
  ELSE sizeOf(fields[i].valueType) + sizeOfFields(fields, i + 1)
sizeOfVariants(variants, i) ==
  IF i > Len(variants) THEN 0
  ELSE LET rest == sizeOfVariants(variants, i + 1)
           this == IF variants[i].valueType = null THEN 0
                   ELSE sizeOf(variants[i].valueType)
       IN  IF this > rest THEN this ELSE rest
sizeOf(t) ==
  CASE t.type \in {"bool", "i32"} -> 4
    [] t.type = "f64"             -> 8
    [] t.type = "enum"            -> sizeOfVariants(t.variants, 1) + 4
    [] t.type = "struct"          -> sizeOfFields(t.fields, 1)

\* The struct symbol the emitter reads: each field with its offset, the
\* running sum of the sizes of the fields declared before it, and the
\* struct's size, the sum of all of them.
StructSymbol(name, fields) ==
  [type   |-> "struct",
   name   |-> name,
   fields |-> [i \in 1..Len(fields) |->
                 [name |-> fields[i].name, valueType |-> fields[i].valueType,
                  offset |-> sizeOfFields(SubSeq(fields, 1, i - 1), 1)]],
   size   |-> sizeOfFields(fields, 1)]

\* fields.find((f) => f.name === name), variants.find(...): the index or 0
RECURSIVE findNamed(_, _, _)
findNamed(list, name, i) ==
  IF i > Len(list) THEN 0
  ELSE IF list[i].name = name THEN i
  ELSE findNamed(list, name, i + 1)

----------------------------------------------------------------------------
(* Mood: TypeChecker.ts.  Every method hands back [T, type].               *)

addBuiltinTypes ==
  ("bool" :> [type |-> "bool"]) @@ ("true" :> [type |-> "bool"])
    @@ ("false" :> [type |-> "bool"]) @@ ("i32" :> [type |-> "i32"])
    @@ ("f64" :> [type |-> "f64"])

TypeChecker ==
  [scopes |-> << addBuiltinTypes >>, _typeTable |-> <<>>, thrown |-> NoError]

fromAnnotation(T, scope, annotation) ==
  IF Threw(T) THEN TRet(T, null)
  ELSE LET found == lookup(T, scope, annotation.name)
       IN  IF found = null
             THEN TRet(throw(T, DiagnosticError("Unknown type: " \o annotation.name,
                                                annotation.loc,
                                                "This type is not defined.")),
                       null)
             ELSE TRet(typeAstNode(T, annotation.nodeId, found), found)

tcLiteral(T, scope, node) ==
  LET type == IF node.value.typeof = "boolean"
                THEN TRet(T, [type |-> "bool"])
                ELSE fromAnnotation(T, scope, node.annotation)
  IN  IF Threw(type.T) THEN type
      ELSE TRet(typeAstNode(type.T, node.nodeId, type.type), type.type)

tcIdentifier(T, scope, node) ==
  LET type == lookup(T, scope, node.name)
  IN  IF type = null
        THEN TRet(throw(T, DiagnosticError("Undefined variable: " \o node.name,
                                           node.loc, "This variable is not defined.")),
                  null)
        ELSE TRet(typeAstNode(T, node.nodeId, type), type)

\* case "Parameter" of tc
tcParameter(T, scope, node) ==
  LET paramType == fromAnnotation(T, scope, node.annotation)
  IN  IF Threw(paramType.T) THEN paramType
      ELSE TRet(typeAstNode(paramType.T, node.nodeId, paramType.type), paramType.type)

\* node.variants.map(...) of tcEnumDeclaration, with tcVariantDeclarationValue
RECURSIVE tcVariants(_, _, _, _, _)
tcVariants(T, scope, variants, i, done) ==
  IF Threw(T) \/ i > Len(variants) THEN TRet(T, done)
  ELSE LET variant   == variants[i]
           valueType == IF variant.valueType # null
                          THEN fromAnnotation(T, scope, variant.valueType)
                          ELSE TRet(T, null)
       IN  tcVariants(valueType.T, scope, variants, i + 1,
                      Append(done, [name |-> variant.id.name,
                                    valueType |-> valueType.type]))

tcEnumDeclaration(T, scope, node) ==
  LET variants == tcVariants(T, scope, node.variants, 1, <<>>)
  IN  IF Threw(variants.T) THEN TRet(variants.T, null)
      ELSE TRet(define(variants.T, scope, node.id.name,
                       [type |-> "enum", name |-> node.id.name,
                        variants |-> variants.type]),
                [type |-> "empty"])

\* for (const field of node.fields) of tcStructDeclaration
RECURSIVE tcStructFields(_, _, _, _, _)
tcStructFields(T, scope, fields, i, done) ==
  IF Threw(T) \/ i > Len(fields) THEN TRet(T, done)
  ELSE LET fieldType == fromAnnotation(T, scope, fields[i].annotation)
       IN  tcStructFields(fieldType.T, scope, fields, i + 1,
                          Append(done, [name |-> fields[i].id.name,
                                        valueType |-> fieldType.type]))

tcStructDeclaration(T, scope, node) ==
  LET fields == tcStructFields(T, scope, node.fields, 1, <<>>)
  IN  IF Threw(fields.T) THEN TRet(fields.T, null)
      ELSE TRet(define(fields.T, scope, node.id.name,
                       StructSymbol(node.id.name, fields.type)),
                [type |-> "empty"])

RECURSIVE tc(_, _, _), expectType(_, _, _, _), tcAll(_, _, _, _, _),
          expectTypes(_, _, _, _, _), tcConstructedFields(_, _, _, _, _)

\* for (const child of ...) lastType = this.tc(child, scope)
tcAll(T, scope, nodes, i, lastType) ==
  IF Threw(T) \/ i > Len(nodes) THEN TRet(T, lastType)
  ELSE LET type == tc(T, scope, nodes[i])
       IN  tcAll(type.T, scope, nodes, i + 1, type.type)

tcProgram(T, scope, node) == tcAll(T, scope, node.body, 1, [type |-> "empty"])

tcBlockExpression(T, scope, node) ==
  tcAll(T, scope, node.expressions, 1, [type |-> "empty"])

expectType(T, scope, node, type) ==
  LET actual == tc(T, scope, node)
      T1     == actual.T
      shown  == IF node.type = "BlockExpression" /\ Len(node.expressions) > 0
                  THEN node.expressions[Len(node.expressions)]
                  ELSE node
  IN  IF Threw(T1) THEN TRet(T1, null)
      ELSE IF type = null
        THEN TRet(throw(T1, TypeError("Cannot read properties of null (reading 'type')")),
                  null)
      ELSE IF actual.type.type # type.type
        THEN TRet(throw(T1, DiagnosticError(
                    "Expected \"" \o type.type \o "\", got \"" \o actual.type.type \o "\"",
                    shown.loc,
                    "Expected \"" \o type.type \o "\".")),
                  null)
      ELSE IF actual.type.type = "function"
        THEN TRet(throw(T1, Error("TODO: Check function types")), null)
      ELSE actual

tcMemberExpression(T, scope, node) ==
  LET head == tc(T, scope, node.head)
      T1   == head.T
      tail == findNamed(head.type.fields, node.tail.name, 1)
  IN  IF Threw(T1) THEN TRet(T1, null)
      ELSE IF head.type.type # "struct"
        THEN TRet(throw(T1, DiagnosticError("Cannot access member of non-struct type.",
                                            node.head.loc,
                                            "Type is " \o head.type.type)),
                  null)
      ELSE IF tail = 0
        THEN TRet(throw(T1, DiagnosticError(
                    "Struct \"" \o head.type.name \o "\" does not have a field named \""
                      \o node.tail.name \o "\".",
                    node.tail.loc,
                    "Type is " \o head.type.type)),
                  null)
      ELSE TRet(typeAstNode(T1, node.nodeId, head.type.fields[tail].valueType),
                head.type.fields[tail].valueType)

tcVariableDeclaration(T, scope, node) ==
  LET type  == fromAnnotation(T, scope, node.annotation)
      value == expectType(type.T, scope, node.value, type.type)
      T1    == value.T
  IN  IF Threw(T1) THEN TRet(T1, null)
      ELSE TRet(typeAstNode(define(T1, scope, node.name.name, type.type),
                            node.nodeId, type.type),
                type.type)

\* tcExpressionPath were excessiveArgs args.slice(0): the diagnostic's span
\* begins at the first argument.
tcExpressionPath_spanFromFirstArg(T, scope, node) ==
  LET type == lookup(T, scope, node.head.name)
      tail == node.tail
  IN  IF type = null
        THEN TRet(throw(T, DiagnosticError(
                    "Undefined enum \"" \o node.head.name \o "\"",
                    node.head.loc,
                    "\"" \o node.head.name \o "\" is not defined.")),
                  null)
      ELSE IF type.type # "enum"
        THEN TRet(throw(T, DiagnosticError("Expected enum, got " \o type.type,
                                           node.head.loc, "Expected an enum.")),
                  null)
      ELSE IF tail.type = "Identifier"
        THEN LET variant == findNamed(type.variants, tail.name, 1)
             IN  IF variant = 0
                   THEN TRet(throw(T, DiagnosticError(
                               "Undefined variant \"" \o tail.name \o "\"",
                               tail.loc,
                               "\"" \o tail.name \o "\" is not a variant of \""
                                 \o node.head.name \o "\".")),
                             null)
                 ELSE IF type.variants[variant].valueType # null
                   THEN TRet(throw(T, DiagnosticError(
                               "Variant \"" \o tail.name
                                 \o "\" is not a unit variant. Expected a value of type \""
                                 \o type.variants[variant].valueType.type \o "\".",
                               lastChar(tail.loc),
                               "Expected a value here.")),
                             null)
                 ELSE TRet(typeAstNode(T, node.nodeId, type), type)
      ELSE \* tail.type = "CallExpression"
        LET variant == findNamed(type.variants, tail.callee.name, 1)
        IN  IF variant = 0
              THEN TRet(throw(T, DiagnosticError(
                          "Undefined variant \"" \o tail.callee.name \o "\"",
                          tail.loc,
                          "\"" \o tail.callee.name \o "\" is not a variant of \""
                            \o node.head.name \o "\".")),
                        null)
            ELSE IF Len(tail.args) = 0
              THEN TRet(throw(T, DiagnosticError(
                          "Variant \"" \o tail.callee.name
                            \o "\" is not a unit variant. Expected a value argument.",
                          lastChar(tail.loc),
                          "Expected a value here.")),
                        null)
            ELSE IF Len(tail.args) > 1
              THEN LET excessiveArgs == SubSeq(tail.args, 1, Len(tail.args))
                       first == excessiveArgs[1]
                       last  == excessiveArgs[Len(excessiveArgs)]
                   IN  TRet(throw(T, DiagnosticError(
                              "Variant \"" \o tail.callee.name
                                \o "\" is not a unit variant. Expected a single value argument, but got "
                                \o ToString(Len(tail.args)) \o ".",
                              union(first.loc, last.loc),
                              "Unexpected "
                                \o (IF Len(excessiveArgs) > 1 THEN "values" ELSE "value")
                                \o ".")),
                            null)
            ELSE LET arg == tail.args[1]
                     checked == expectType(T, scope, arg, type.variants[variant].valueType)
                     T1 == checked.T
                 IN  IF Threw(T1) THEN TRet(T1, null)
                     ELSE TRet(typeAstNode(typeAstNode(T1, arg.nodeId, checked.type),
                                           node.nodeId, type),
                               type)

tcExpressionPath(T, scope, node) ==
  LET type == lookup(T, scope, node.head.name)
      tail == node.tail
  IN  IF type = null
        THEN TRet(throw(T, DiagnosticError(
                    "Undefined enum \"" \o node.head.name \o "\"",
                    node.head.loc,
                    "\"" \o node.head.name \o "\" is not defined.")),
                  null)
      ELSE IF type.type # "enum"
        THEN TRet(throw(T, DiagnosticError("Expected enum, got " \o type.type,
                                           node.head.loc, "Expected an enum.")),
                  null)
      ELSE IF tail.type = "Identifier"
        THEN LET variant == findNamed(type.variants, tail.name, 1)
             IN  IF variant = 0
                   THEN TRet(throw(T, DiagnosticError(
                               "Undefined variant \"" \o tail.name \o "\"",
                               tail.loc,
                               "\"" \o tail.name \o "\" is not a variant of \""
                                 \o node.head.name \o "\".")),
                             null)
                 ELSE IF type.variants[variant].valueType # null
                   THEN TRet(throw(T, DiagnosticError(
                               "Variant \"" \o tail.name
                                 \o "\" is not a unit variant. Expected a value of type \""
                                 \o type.variants[variant].valueType.type \o "\".",
                               lastChar(tail.loc),
                               "Expected a value here.")),
                             null)
                 ELSE TRet(typeAstNode(T, node.nodeId, type), type)
      ELSE \* tail.type = "CallExpression"
        LET variant == findNamed(type.variants, tail.callee.name, 1)
        IN  IF variant = 0
              THEN TRet(throw(T, DiagnosticError(
                          "Undefined variant \"" \o tail.callee.name \o "\"",
                          tail.loc,
                          "\"" \o tail.callee.name \o "\" is not a variant of \""
                            \o node.head.name \o "\".")),
                        null)
            ELSE IF Len(tail.args) = 0
              THEN TRet(throw(T, DiagnosticError(
                          "Variant \"" \o tail.callee.name
                            \o "\" is not a unit variant. Expected a value argument.",
                          lastChar(tail.loc),
                          "Expected a value here.")),
                        null)
            ELSE IF Len(tail.args) > 1
              THEN LET excessiveArgs == SubSeq(tail.args, 2, Len(tail.args))
                       first == excessiveArgs[1]
                       last  == excessiveArgs[Len(excessiveArgs)]
                   IN  TRet(throw(T, DiagnosticError(
                              "Variant \"" \o tail.callee.name
                                \o "\" is not a unit variant. Expected a single value argument, but got "
                                \o ToString(Len(tail.args)) \o ".",
                              union(first.loc, last.loc),
                              "Unexpected "
                                \o (IF Len(excessiveArgs) > 1 THEN "values" ELSE "value")
                                \o ".")),
                            null)
            ELSE LET arg == tail.args[1]
                     checked == expectType(T, scope, arg, type.variants[variant].valueType)
                     T1 == checked.T
                 IN  IF Threw(T1) THEN TRet(T1, null)
                     ELSE TRet(typeAstNode(typeAstNode(T1, arg.nodeId, checked.type),
                                           node.nodeId, type),
                               type)

\* for (const [i, arg] of node.args.entries()) this.expectType(arg, func.params[i], scope)
expectTypes(T, scope, args, params, i) ==
  IF Threw(T) \/ i > Len(args) THEN T
  ELSE expectTypes(expectType(T, scope, args[i], params[i]).T, scope, args, params, i + 1)

tcCallExpression(T, scope, node) ==
  LET func == lookup(T, scope, node.callee.name)
  IN  IF func = null
        THEN TRet(throw(T, DiagnosticError(
                    "Undefined function: \"" \o node.callee.name \o "\"",
                    node.callee.loc, "This function is not defined.")),
                  null)
      ELSE IF func.type # "function"
        THEN TRet(throw(T, DiagnosticError(
                    "Tried calling \"" \o node.callee.name \o "\", but \""
                      \o node.callee.name \o "\" is not a function.",
                    node.loc,
                    "\"" \o node.callee.name \o "\" is not a function.")),
                  null)
      ELSE IF Len(node.args) < Len(func.params)
        THEN LET missingCount == Len(func.params) - Len(node.args)
             IN  TRet(throw(T, DiagnosticError(
                        "Too few arguments. Expected " \o ToString(Len(func.params))
                          \o " but found " \o ToString(Len(node.args)) \o ".",
                        lastChar(node.loc),
                        "\"" \o node.callee.name \o "\" requires "
                          \o ToString(missingCount) \o " more "
                          \o (IF missingCount = 1 THEN "argument" ELSE "arguments")
                          \o ".")),
                      null)
      ELSE IF Len(node.args) > Len(func.params)
        THEN LET excess   == SubSeq(node.args, Len(func.params) + 1, Len(node.args))
                 firstLoc == excess[1].loc
                 lastLoc  == excess[Len(excess)].loc
             IN  TRet(throw(T, DiagnosticError(
                        "Too many arguments. Expected " \o ToString(Len(func.params))
                          \o " but found " \o ToString(Len(node.args)) \o ".",
                        union(firstLoc, lastLoc),
                        "These arguments are not accepted by \""
                          \o node.callee.name \o "\".")),
                      null)
      ELSE LET T1 == expectTypes(T, scope, node.args, func.params, 1)
           IN  IF Threw(T1) THEN TRet(T1, null)
               ELSE TRet(typeAstNode(T1, node.nodeId, func.result), func.result)

\* missingFields.map((f) => `"${f.name}"`).join(", ") over the fields of the
\* struct that no field of the construction names
RECURSIVE missingFieldNames(_, _, _, _)
missingFieldNames(fields, given, i, names) ==
  IF i > Len(fields) THEN names
  ELSE IF \E k \in 1..Len(given) : given[k].name.name = fields[i].name
    THEN missingFieldNames(fields, given, i + 1, names)
  ELSE missingFieldNames(fields, given, i + 1,
         (IF names = "" THEN "" ELSE names \o ", ") \o "\"" \o fields[i].name \o "\"")

\* for (const field of node.fields) of tcStructConstruction
tcConstructedFields(T, scope, node, struct, i) ==
  IF Threw(T) \/ i > Len(node.fields) THEN T
  ELSE LET field     == node.fields[i]
           fieldType == findNamed(struct.fields, field.name.name, 1)
       IN  IF fieldType = 0
             THEN throw(T, DiagnosticError(
                    "Undefined struct field: \"" \o field.name.name \o "\".",
                    field.name.loc,
                    "\"" \o field.name.name \o "\" is not a field of \""
                      \o node.id.name \o "\"."))
             ELSE LET valueType == struct.fields[fieldType].valueType
                      T1 == typeAstNode(T, field.name.nodeId, valueType)
                  IN  tcConstructedFields(expectType(T1, scope, field.value, valueType).T,
                                          scope, node, struct, i + 1)

tcStructConstruction(T, scope, node) ==
  LET struct == lookup(T, scope, node.id.name)
      names  == missingFieldNames(struct.fields, node.fields, 1, "")
  IN  IF struct = null
        THEN TRet(throw(T, DiagnosticError(
                    "Undefined struct: \"" \o node.id.name \o "\".",
                    node.id.loc, "This struct is not defined.")),
                  null)
      ELSE IF struct.type # "struct"
        THEN TRet(throw(T, DiagnosticError(
                    "Tried to use a " \o struct.type \o " as a struct.",
                    node.id.loc,
                    "\"" \o node.id.name \o "\" is a " \o struct.type \o " not a struct.")),
                  null)
      ELSE IF names # ""
        THEN TRet(throw(T, DiagnosticError(
                    "Missing struct field(s): " \o names \o ".",
                    lastChar(node.loc),
                    "\"" \o node.id.name \o "\" is missing the field(s) " \o names \o ".")),
                  null)
      ELSE LET T1 == tcConstructedFields(T, scope, node, struct, 1)
           IN  IF Threw(T1) THEN TRet(T1, null)
               ELSE TRet(typeAstNode(T1, node.nodeId, struct), struct)

\* for (const param of node.params) of tcFunctionDeclaration
RECURSIVE tcParams(_, _, _, _, _, _)
tcParams(T, scope, functionScope, params, i, types) ==
  IF Threw(T) \/ i > Len(params) THEN TRet(T, types)
  ELSE LET paramType == tc(T, scope, params[i])
       IN  IF Threw(paramType.T) THEN TRet(paramType.T, types)
           ELSE tcParams(define(paramType.T, functionScope, params[i].name.name,
                                paramType.type),
                         scope, functionScope, params, i + 1,
                         Append(types, paramType.type))

tcFunctionDeclaration(T, scope, node) ==
  LET functionScope == scope + 1
      params == tcParams(child(T, scope), scope, functionScope, node.params, 1, <<>>)
      result == fromAnnotation(params.T, scope, node.returnType)
      T1     == IF Threw(result.T) THEN result.T
                ELSE define(typeAstNode(result.T, node.returnType.nodeId, result.type),
                            scope, node.id.name,
                            [type |-> "function", params |-> params.type,
                             result |-> result.type])
      body   == expectType(T1, functionScope, node.body, result.type)
  IN  IF Threw(T1) THEN TRet(T1, null)
      ELSE IF Threw(body.T) THEN TRet(body.T, null)
      ELSE TRet(body.T, [type |-> "empty"])

tcBinaryExpression(T, scope, node) ==
  LET left     == tc(T, scope, node.left)
      leftType == left.type
      T1       == left.T
      right    == expectType(T1, scope, node.right, leftType)
  IN  IF Threw(T1) THEN TRet(T1, null)
      ELSE IF node.operator \in {"*", "+"}
        THEN IF ~(leftType.type = "f64" \/ leftType.type = "i32")
               THEN TRet(throw(T1, DiagnosticError("Expected a number.", node.left.loc,
                                                   "This expression is not numeric.")),
                         null)
             ELSE IF Threw(right.T) THEN TRet(right.T, null)
             ELSE TRet(typeAstNode(right.T, node.nodeId, leftType), leftType)
      ELSE \* node.operator = "=="
        IF ~(leftType.type \in {"f64", "i32", "bool", "enum", "struct"})
          THEN TRet(throw(T1, DiagnosticError(
                      "The type \"" \o leftType.type
                        \o "\" does not support equality comparison.",
                      node.left.loc, "Unexpected type.")),
                    null)
        ELSE IF Threw(right.T) THEN TRet(right.T, null)
        ELSE TRet(typeAstNode(right.T, node.nodeId, [type |-> "bool"]),
                  [type |-> "bool"])

tc(T, scope, node) ==
  IF Threw(T) THEN TRet(T, null)
  ELSE CASE node.type = "Program"             -> tcProgram(T, scope, node)
         [] node.type = "BinaryExpression"    -> tcBinaryExpression(T, scope, node)
         [] node.type = "FunctionDeclaration" -> tcFunctionDeclaration(T, scope, node)
         [] node.type = "StructDeclaration"   -> tcStructDeclaration(T, scope, node)
         [] node.type = "Parameter"           -> tcParameter(T, scope, node)
         [] node.type = "StructConstruction"  -> tcStructConstruction(T, scope, node)
         [] node.type = "BlockExpression"     -> tcBlockExpression(T, scope, node)
         [] node.type = "EnumDeclaration"     -> tcEnumDeclaration(T, scope, node)
         [] node.type = "Identifier"          -> tcIdentifier(T, scope, node)
         [] node.type = "CallExpression"      -> tcCallExpression(T, scope, node)
         [] node.type = "ExpressionPath"      -> tcExpressionPath(T, scope, node)
         [] node.type = "Literal"             -> tcLiteral(T, scope, node)
         [] node.type = "VariableDeclaration" -> tcVariableDeclaration(T, scope, node)
         [] node.type = "MemberExpression"    -> tcMemberExpression(T, scope, node)
         [] OTHER -> TRet(throw(T, Error("Unknown node type: " \o node.type)), null)

\* typeCheck(ast): the checker after checker.tc(ast, scope)
typeCheck(node) == tc(TypeChecker, 1, node).T
----------------------------------------------------------------------------
(* Mood: WasmEmitter.ts.  E is the emitter: the ModuleContext it fills     *)
(* (ctx), its maps, the position in ctx.code of the FunctionContext it is  *)
(* writing (func; exp is that context's exp) and the error it threw if it  *)
(* threw one.  Every method hands back E.                                  *)

\* ModuleContext.declareFunction(signature, cb) as this emitter calls it:
\* the type is interned, the type index and a fresh FunctionContext are
\* pushed, the function is exported under signature.exportName if there is
\* one, and the function index is returned.
\* [ctx |-> the module afterwards, index |-> returned]
declareFunctionExported(ctx, signature) ==
  LET functionContext == NewFunctionContext(signature.params, signature.results)
      interned        == getFunctionTypeIndex(ctx.funcTypes, getFuncType(functionContext))
      nextFuncIndex   == Len(ctx.functions)
      pushed == [ctx EXCEPT !.funcTypes = interned.types,
                            !.functions = Append(@, interned.index),
                            !.code      = Append(@, functionContext)]
  IN  [ctx   |-> IF signature.exportName = <<>> THEN pushed
                 ELSE [pushed EXCEPT !.exports =
                         Append(@, [name |-> signature.exportName,
                                    exportDesc |-> FUNC_IDX,
                                    index |-> nextFuncIndex])],
       index |-> nextFuncIndex]

\* The UTF-16 code units of the names the programs export.
charCodes(name) ==
  CASE name = "test"  -> << 116, 101, 115, 116 >>
    [] name = "other" -> << 111, 116, 104, 101, 114 >>

\* this.ctx.defineMemory({ min: 10 }); this._defineBuiltins()
WasmEmitter(typeTable) ==
  LET i32Mut == [type |-> I32, mut |-> MutVAR]
      global(n) == [globalType |-> i32Mut,
                    init |-> ExpApply(<<>>, Call("i32Const", << n >>))]
  IN  [ctx |-> [funcTypes |-> <<>>, functions |-> <<>>, code |-> <<>>,
                exports |-> <<>>,
                memories |-> << [min |-> 10, hasMax |-> FALSE, max |-> 0] >>,
                globals |-> << global(5000), global(5000), global(0), global(0) >>],
       _typeTable |-> typeTable,
       _functions |-> <<>>,
       _locals    |-> <<>>,
       func       |-> 0,
       bsp        |-> 0,
       sp         |-> 1,
       thrown     |-> NoError]

\* this.exp.<m>(...args)
exp(E, m, args) ==
  IF Threw(E) THEN E
  ELSE [E EXCEPT !.ctx.code[E.func].exp = ExpApply(@, Call(m, args))]

\* this.func.defineLocal(type): [E, index]
defineLocalIn(E, type) ==
  LET r == FuncDefineLocal(E.ctx.code[E.func], type)
  IN  [E |-> [E EXCEPT !.ctx.code[E.func] = r.func], index |-> r.index]

numTypeFromValueType(type) ==
  CASE type.type = "f64"    -> F64
    [] type.type = "i32"    -> I32
    [] type.type = "bool"   -> I32
    [] type.type = "enum"   -> I32
    [] type.type = "struct" -> I32
    [] OTHER                -> 0

\* lookupAstNodeNumType(id): [E, numType]; TypeTable.lookup throws when the
\* node has no type, numTypeFromValueType when the type has no NumType.
lookupAstNodeNumType(E, id) ==
  IF Threw(E) THEN [E |-> E, numType |-> 0]
  ELSE IF id \notin DOMAIN E._typeTable
    THEN [E |-> throw(E, Error("No type for AST node " \o ToString(id))), numType |-> 0]
  ELSE IF numTypeFromValueType(E._typeTable[id]) = 0
    THEN [E |-> throw(E, Error("Unknown type [object Object]")), numType |-> 0]
  ELSE [E |-> E, numType |-> numTypeFromValueType(E._typeTable[id])]

emitPrelude(E) ==
  exp(exp(exp(E, "globalGet", << E.bsp >>), "globalGet", << E.sp >>),
      "globalSet", << E.bsp >>)

emitPostlude(E) ==
  LET resultTypes == E.ctx.code[E.func]._results
  IN  IF Threw(E) THEN E
      ELSE IF Len(resultTypes) > 1
        THEN throw(E, Error("We don't support multiple return types"))
      ELSE IF Len(resultTypes) = 0
        THEN exp(E, "globalSet", << E.bsp >>)
      ELSE LET local == defineLocalIn(E, resultTypes[1])
           IN  exp(exp(exp(local.E, "localSet", << local.index >>),
                       "globalSet", << E.bsp >>),
                   "localGet", << local.index >>)

emitLiteral(E, ast) ==
  LET type == lookupAstNodeNumType(E, ast.nodeId)
  IN  IF Threw(type.E) THEN type.E
      ELSE IF ast.value.typeof = "boolean"
        THEN exp(E, "i32Const", << IF ast.value.bool THEN 1 ELSE 0 >>)
      ELSE \* a number; appendI32 reads it with bitwise operators, which drop
           \* the fraction.  (f64 literals are outside the programs modelled.)
        CASE type.numType = I32 -> exp(E, "i32Const", << ast.value.whole >>)

emitExpressionPath(E, ast) ==
  LET enumSymbol == E._typeTable[ast.nodeId]
      \* findIndex: the callback throws on the first variant it is given when
      \* the tail is a call or that variant carries a value
      tailName   == IF ast.tail.type = "Identifier" THEN ast.tail.name ELSE ""
      visited(i) == \A k \in 1..(i - 1) : enumSymbol.variants[k].name # tailName
      throws == \E i \in 1..Len(enumSymbol.variants) :
                  /\ visited(i)
                  /\ (enumSymbol.variants[i].valueType # null
                        \/ ast.tail.type = "CallExpression")
      variantIndex == IF ast.tail.type = "Identifier"
                        THEN findNamed(enumSymbol.variants, tailName, 1) - 1
                        ELSE -1
  IN  IF Threw(E) THEN E
      ELSE IF ast.nodeId \notin DOMAIN E._typeTable
        THEN throw(E, Error("No type for AST node " \o ToString(ast.nodeId)))
      ELSE IF enumSymbol.type # "enum" THEN throw(E, Error("Expected enum type"))
      ELSE IF throws THEN throw(E, Error("TODO: Support enum variants with values"))
      ELSE exp(E, "i32Const", << variantIndex >>)

RECURSIVE emit(_, _), emitAll(_, _, _), emitBlockExpressions(_, _, _),
          emitStructFields(_, _, _, _)

\* for (const x of xs) this.emit(x)
emitAll(E, nodes, i) ==
  IF Threw(E) \/ i > Len(nodes) THEN E
  ELSE emitAll(emit(E, nodes[i]), nodes, i + 1)

emitProgram(E, ast) == emitAll(E, ast.body, 1)

\* case "CallExpression" of emit, with getFunction
emitCallExpression(E, ast) ==
  LET E1 == emitAll(E, ast.args, 1)
  IN  IF Threw(E1) THEN E1
      ELSE IF ast.callee.name \notin DOMAIN E1._functions
        THEN throw(E1, Error("Unknown function: " \o ast.callee.name))
      ELSE exp(E1, "call", << E1._functions[ast.callee.name] >>)

\* case "Identifier" of emit, with getLocal
emitIdentifier(E, ast) ==
  IF ast.name \notin DOMAIN E._locals
    THEN throw(E, Error("Unknown local: " \o ast.name))
    ELSE exp(E, "localGet", << E._locals[ast.name] >>)

\* emitStructConstruction were no space allocated: the struct is written at
\* the stack pointer as it stands.
emitStructConstruction_noAllocation(E, ast) ==
  LET structType == E._typeTable[ast.nodeId]
  IN  IF Threw(E) THEN E
      ELSE exp(emitStructFields(E, ast, structType, 1), "globalGet", << E.sp >>)

emitStructConstruction(E, ast) ==
  LET structType == E._typeTable[ast.nodeId]
      allocated  ==
        exp(exp(exp(exp(E, "globalGet", << E.sp >>),
                    "i32Const", << structType.size >>),
                "i32Sub", <<>>),
            "globalSet", << E.sp >>)
  IN  IF Threw(E) THEN E
      ELSE IF ast.nodeId \notin DOMAIN E._typeTable
        THEN throw(E, Error("No type for AST node " \o ToString(ast.nodeId)))
      ELSE IF structType.type # "struct" THEN throw(E, Error("Expected struct type"))
      ELSE exp(emitStructFields(allocated, ast, structType, 1), "globalGet", << E.sp >>)

\* for (const field of Object.values(structType.fields)) of emitStructConstruction
emitStructFields(E, ast, structType, i) ==
  IF Threw(E) \/ i > Len(structType.fields) THEN E
  ELSE LET field == structType.fields[i]
           given == { k \in 1..Len(ast.fields) : ast.fields[k].name.name = field.name }
           value == ast.fields[CHOOSE k \in given : \A j \in given : k <= j]
       IN  IF given = {} THEN throw(E, Error("Missing field."))
           ELSE emitStructFields(
                  exp(emit(exp(E, "globalGet", << E.sp >>), value.value),
                      "i32Store", << field.offset, 0 >>),
                  ast, structType, i + 1)

emitMemberExpression(E, ast) ==
  LET E1     == emit(E, ast.head)
      struct == E1._typeTable[ast.head.nodeId]
      field  == findNamed(struct.fields, ast.tail.name, 1)
  IN  IF Threw(E1) THEN E1
      ELSE IF ast.head.nodeId \notin DOMAIN E1._typeTable
        THEN throw(E1, Error("No type for AST node " \o ToString(ast.head.nodeId)))
      ELSE IF struct.type # "struct" THEN throw(E1, Error("Expected struct type"))
      ELSE IF field = 0
        THEN throw(E1, TypeError("Cannot read properties of undefined (reading 'offset')"))
      ELSE exp(E1, "i32Load", << struct.fields[field].offset, 0 >>)

emitBinaryExpression(E, ast) ==
  LET E1       == emit(emit(E, ast.left), ast.right)
      leftType == E1._typeTable[ast.left.nodeId].type
  IN  IF Threw(E1) THEN E1
      ELSE IF ast.left.nodeId \notin DOMAIN E1._typeTable
        THEN throw(E1, Error("No type for AST node " \o ToString(ast.left.nodeId)))
      ELSE CASE ast.operator = "+" ->
                  CASE leftType = "i32" -> exp(E1, "i32Add", <<>>)
                    [] leftType = "f64" -> exp(E1, "f64Add", <<>>)
                    [] OTHER -> throw(E1, Error(
                         "Expected LHS of a + operation to be a numeric type"))
             [] ast.operator = "*" ->
                  CASE leftType = "i32" -> exp(E1, "i32Mul", <<>>)
                    [] leftType = "f64" -> exp(E1, "f64Mul", <<>>)
                    [] OTHER -> throw(E1, Error(
                         "Expected LHS of a * operation to be a numeric type"))
             [] ast.operator = "==" ->
                  CASE leftType \in {"i32", "bool"} -> exp(E1, "i32Eq", <<>>)
                    [] leftType = "f64"    -> exp(E1, "f64Eq", <<>>)
                    [] leftType = "struct" ->
                         throw(E1, Error("TODO: Implement struct equality"))
                    [] leftType = "enum"   ->
                         throw(E1, Error("TODO: Implement enum equality"))
                    [] OTHER -> throw(E1, Error(
                         "Equality comparison is not supported for the type: "
                           \o ast.left.type))
             [] OTHER -> throw(E1, Error("Unknown operator: " \o ast.operator))

emitVariableDeclaration(E, ast) ==
  LET type  == lookupAstNodeNumType(E, ast.nodeId)
      local == defineLocalIn(type.E, type.numType)
      E1    == [local.E EXCEPT !._locals = (ast.name.name :> local.index) @@ @]
  IN  IF Threw(type.E) THEN type.E
      ELSE exp(emit(E1, ast.value), "localTee", << local.index >>)

\* the loop of emitBlockExpression: a drop after every expression but the last
emitBlockExpressions(E, expressions, i) ==
  IF Threw(E) \/ i > Len(expressions) THEN E
  ELSE LET E1 == emit(E, expressions[i])
           E2 == IF i < Len(expressions) THEN exp(E1, "drop", <<>>) ELSE E1
       IN  emitBlockExpressions(E2, expressions, i + 1)

\* emitBlockExpression were to drop after the last expression as well.
emitBlockExpression_dropAfterEach(E, ast) ==
  exp(emitBlockExpressions(E, ast.expressions, 1), "drop", <<>>)

emitBlockExpression(E, ast) == emitBlockExpressions(E, ast.expressions, 1)

\* for (const [i, param] of ast.params.entries()) of emitFunctionDeclaration:
\* [E, params, locals]
RECURSIVE emitParams(_, _, _, _, _)
emitParams(E, params, i, types, locals) ==
  IF Threw(E) \/ i > Len(params) THEN [E |-> E, params |-> types, locals |-> locals]
  ELSE LET type == lookupAstNodeNumType(E, params[i].nodeId)
       IN  emitParams(type.E, params, i + 1, Append(types, type.numType),
                      (params[i].name.name :> (i - 1)) @@ locals)

emitFunctionDeclaration(E, ast) ==
  LET name      == ast.id.name
      params    == emitParams(E, ast.params, 1, <<>>, <<>>)
      result    == lookupAstNodeNumType(params.E, ast.returnType.nodeId)
      signature == [params     |-> params.params,
                    results    |-> << result.numType >>,
                    exportName |-> IF ast.public THEN charCodes(name) ELSE <<>>]
      function  == declareFunctionExported(result.E.ctx, signature)
      \* the callback, given the FunctionContext that was pushed
      E1 == [result.E EXCEPT !.ctx = function.ctx, !.func = Len(function.ctx.code)]
      E2 == emitPrelude(E1)
      E3 == emit([E2 EXCEPT !._locals = params.locals], ast.body)
      E4 == emitPostlude(E3)
  IN  IF Threw(result.E) THEN result.E
      ELSE IF Threw(E4) THEN E4
      ELSE IF name \in DOMAIN E4._functions
        THEN throw(E4, Error("Duplicate function name: \"" \o name \o "\""))
      ELSE [E4 EXCEPT !._functions = (name :> function.index) @@ @]

emit(E, ast) ==
  IF Threw(E) THEN E
  ELSE CASE ast.type = "Program"             -> emitProgram(E, ast)
         [] ast.type = "FunctionDeclaration" -> emitFunctionDeclaration(E, ast)
         [] ast.type = "BlockExpression"     -> emitBlockExpression(E, ast)
         [] ast.type \in {"StructDeclaration", "EnumDeclaration"} -> E
         [] ast.type = "StructConstruction"  -> emitStructConstruction(E, ast)
         [] ast.type = "MemberExpression"    -> emitMemberExpression(E, ast)
         [] ast.type = "BinaryExpression"    -> emitBinaryExpression(E, ast)
         [] ast.type = "CallExpression"      -> emitCallExpression(E, ast)
         [] ast.type = "ExpressionPath"      -> emitExpressionPath(E, ast)
         [] ast.type = "VariableDeclaration" -> emitVariableDeclaration(E, ast)
         [] ast.type = "Identifier"          -> emitIdentifier(E, ast)
         [] ast.type = "Literal"             -> emitLiteral(E, ast)
         [] OTHER -> throw(E, Error("Unknown node type: " \o ast.type))
----------------------------------------------------------------------------
(* The host: a WebAssembly engine running the exported test() of the       *)
(* module the emitter filled (tests/test.ts: new WebAssembly.Instance,     *)
(* instance.exports.test()).                                               *)

\* The signed LEB128 at bytes[pos]: [value, next]
RECURSIVE ReadI32(_, _, _, _)
ReadI32(bytes, pos, mult, acc) ==
  LET b   == bytes[pos]
      sum == acc + (b % 128) * mult
  IN  IF b >= 128 THEN ReadI32(bytes, pos + 1, mult * 128, sum)
      ELSE [value |-> IF (b \div 64) % 2 = 1 THEN sum - mult * 128 ELSE sum,
            next  |-> pos + 1]

\* The bytes of linear memory one page holds.
PageSize == 65536

\* The value of a constant expression i32.const n.
ConstValue(init) == ReadI32(init, 2, 1, 0).value

\* A machine M is [stack, locals, globals, mem, calls, trap]: the operand
\* stack (top last), the locals of the running function, the globals, the
\* i32 cells of memory that were stored to (by address), the result of every
\* call that returned with the globals before it and on its return, and
\* whether the run trapped.
Pop(M, n) == [M EXCEPT !.stack = SubSeq(@, 1, Len(@) - n)]
Push(M, v) == [M EXCEPT !.stack = Append(@, v)]
Top(M, k) == M.stack[Len(M.stack) - k]
Trap(M) == [M EXCEPT !.trap = TRUE]

\* Runs code from pos to its end.  The arithmetic is that of i32 values far
\* from the ends of the i32 range.
RECURSIVE Exec(_, _, _, _)
Exec(ctx, M, code, pos) ==
  IF M.trap \/ pos > Len(code) THEN M
  ELSE
    LET op   == code[pos]
        u    == ReadU32(code, pos + 1, 1, 0)
        u2   == ReadU32(code, u.next, 1, 0)
        need(n) == Len(M.stack) >= n
        binary(v) == Exec(ctx, Push(Pop(M, 2), v), code, pos + 1)
    IN  CASE op = 26 /\ need(1) -> Exec(ctx, Pop(M, 1), code, pos + 1)
          [] op = 32 /\ u.value < Len(M.locals) ->
               Exec(ctx, Push(M, M.locals[u.value + 1]), code, u.next)
          [] op = 33 /\ need(1) /\ u.value < Len(M.locals) ->
               Exec(ctx, [Pop(M, 1) EXCEPT !.locals[u.value + 1] = Top(M, 0)],
                    code, u.next)
          [] op = 34 /\ need(1) /\ u.value < Len(M.locals) ->
               Exec(ctx, [M EXCEPT !.locals[u.value + 1] = Top(M, 0)], code, u.next)
          [] op = 35 /\ u.value < Len(M.globals) ->
               Exec(ctx, Push(M, M.globals[u.value + 1]), code, u.next)
          [] op = 36 /\ need(1) /\ u.value < Len(M.globals) ->
               Exec(ctx, [Pop(M, 1) EXCEPT !.globals[u.value + 1] = Top(M, 0)],
                    code, u.next)
          [] op = 65 ->
               LET n == ReadI32(code, pos + 1, 1, 0)
               IN  Exec(ctx, Push(M, n.value), code, n.next)
          [] op = 70 /\ need(2) -> binary(IF Top(M, 1) = Top(M, 0) THEN 1 ELSE 0)
          [] op = 106 /\ need(2) -> binary(Top(M, 1) + Top(M, 0))
          [] op = 107 /\ need(2) -> binary(Top(M, 1) - Top(M, 0))
          [] op = 108 /\ need(2) -> binary(Top(M, 1) * Top(M, 0))
          [] op = 40 /\ need(1) ->
               \* i32.load align offset: the cell at address + offset
               LET ea == Top(M, 0) + u2.value
               IN  IF ea < 0 \/ ea + 4 > ctx.memories[1].min * PageSize
                     THEN Trap(M)
                     ELSE Exec(ctx,
                               Push(Pop(M, 1),
                                    IF ea \in DOMAIN M.mem THEN M.mem[ea] ELSE 0),
                               code, u2.next)
          [] op = 54 /\ need(2) ->
               LET ea == Top(M, 1) + u2.value
               IN  IF ea < 0 \/ ea + 4 > ctx.memories[1].min * PageSize
                     THEN Trap(M)
                     ELSE Exec(ctx, [Pop(M, 2) EXCEPT !.mem = (ea :> Top(M, 0)) @@ @],
                               code, u2.next)
          [] op = 16 /\ u.value < Len(ctx.code)
                     /\ need(Len(ctx.code[u.value + 1]._params)) ->
               LET callee == ctx.code[u.value + 1]
                   n      == Len(callee._params)
                   args   == SubSeq(M.stack, Len(M.stack) - n + 1, Len(M.stack))
                   inner  == Exec(ctx,
                                  [M EXCEPT !.stack = <<>>,
                                            !.locals = args \o [i \in 1..Len(callee._locals) |-> 0]],
                                  callee.exp, 1)
                   values == SubSeq(inner.stack,
                                    Len(inner.stack) - Len(callee._results) + 1,
                                    Len(inner.stack))
               IN  IF inner.trap \/ Len(inner.stack) # Len(callee._results)
                     THEN Trap(inner)
                     ELSE Exec(ctx,
                               [inner EXCEPT !.stack = Pop(M, n).stack \o values,
                                             !.locals = M.locals,
                                             !.calls = Append(@, [func |-> u.value,
                                                                  values |-> values,
                                                                  before |-> M.globals,
                                                                  after |-> inner.globals])],
                               code, u.next)
          [] OTHER -> Trap(M)

\* instance.exports.test(): [kind, value, calls]
RunTest(ctx) ==
  LET found == { i \in 1..Len(ctx.exports) : ctx.exports[i].name = << 116, 101, 115, 116 >> }
      func  == ctx.code[ctx.exports[CHOOSE i \in found : TRUE].index + 1]
      M0    == [stack |-> <<>>,
                locals |-> [i \in 1..Len(func._locals) |-> 0],
                globals |-> [i \in 1..Len(ctx.globals) |-> ConstValue(ctx.globals[i].init)],
                mem |-> <<>>, calls |-> <<>>, trap |-> FALSE]
      M     == Exec(ctx, M0, func.exp, 1)
  IN  IF found = {} THEN [kind |-> "no export", value |-> 0, calls |-> <<>>]
      ELSE IF M.trap \/ Len(M.stack) # 1
        THEN [kind |-> "trap", value |-> 0, calls |-> M.calls]
      ELSE [kind |-> "value", value |-> M.stack[1], calls |-> M.calls]
----------------------------------------------------------------------------
(* compile(source) on the programs of the model, then the host             *)

\* The digits a number is written with.
RECURSIVE DigitsOf(_)
DigitsOf(n) == IF n < 10 THEN << n >> ELSE Append(DigitsOf(n \div 10), n % 10)

\* n_i32
I32Literal(n) == << NumberToken(DigitsOf(n)), Keyword("_"), IdentifierToken("i32") >>

\* pub fn test(): i32 { body }
TestFunction(body) ==
  << Keyword("pub"), Keyword("fn"), IdentifierToken("test"), Keyword("("),
     Keyword(")"), Keyword(":"), IdentifierToken("i32"), Keyword("{") >>
    \o body \o << Keyword("}") >>

Operands == { 1, 2, 3, 4 }
StructOperands == { 10, 20 }
Operators == { "+", "*", "==" }

\* a o1 b o2 c
Unparenthesised(a, o1, b, o2, c) ==
  I32Literal(a) \o << Keyword(o1) >> \o I32Literal(b) \o << Keyword(o2) >> \o I32Literal(c)

\* a op b, a op b op c, (a op b) op c and a op (b op c)
ArithmeticBodies ==
  { I32Literal(a) \o << Keyword(o) >> \o I32Literal(b) :
      a \in Operands, b \in Operands, o \in Operators }
  \cup
  UNION { { Unparenthesised(a, o1, b, o2, c),
            << Keyword("(") >> \o I32Literal(a) \o << Keyword(o1) >> \o I32Literal(b)
              \o << Keyword(")"), Keyword(o2) >> \o I32Literal(c),
            I32Literal(a) \o << Keyword(o1), Keyword("(") >> \o I32Literal(b)
              \o << Keyword(o2) >> \o I32Literal(c) \o << Keyword(")") >> } :
          a \in Operands, b \in Operands, c \in Operands,
          o1 \in Operators, o2 \in Operators }

\* enum Maybe { Some(i32), None }  or  enum Maybe { Some, None }
EnumSource(valued) ==
  << Keyword("enum"), IdentifierToken("Maybe"), Keyword("{"), IdentifierToken("Some") >>
    \o (IF valued THEN << Keyword("("), IdentifierToken("i32"), Keyword(")") >> ELSE <<>>)
    \o << Keyword(","), IdentifierToken("None"), Keyword("}") >>

\* The argument lists a variant is constructed with: up to MaxArgs arguments,
\* each 10_i32 or true.
ArgumentChoices == { I32Literal(10), << IdentifierToken("true") >> }
RECURSIVE ArgumentListsOf(_)
ArgumentListsOf(n) ==
  IF n = 0 THEN { <<>> }
  ELSE IF n = 1 THEN ArgumentChoices
  ELSE { l \o << Keyword(",") >> \o a : l \in ArgumentListsOf(n - 1), a \in ArgumentChoices }
ArgumentLists == UNION { ArgumentListsOf(n) : n \in 0..MaxArgs }

\* let x: Maybe = head::variant(args); 10_i32   (or head::variant without a call)
EnumBodies ==
  { << Keyword("let"), IdentifierToken("x"), Keyword(":"), IdentifierToken("Maybe"),
       Keyword("="), IdentifierToken(head), Keyword("::"), IdentifierToken(variant) >>
      \o tail \o << Keyword(";") >> \o I32Literal(10) :
      head \in { "Maybe", "Nope", "i32" },
      variant \in { "Some", "None", "Other" },
      tail \in { <<>> } \cup { << Keyword("(") >> \o l \o << Keyword(")") >> :
                                 l \in ArgumentLists } }

\* struct Foo { x: i32 }  fn other(x: i32): Foo { Foo { x: x } }
\* or, with two fields, struct Foo { x: i32, y: i32 } and Foo { x: x, y: x * x }
StructSource(two) ==
  << Keyword("struct"), IdentifierToken("Foo"), Keyword("{"),
     IdentifierToken("x"), Keyword(":"), IdentifierToken("i32") >>
    \o (IF two THEN << Keyword(","), IdentifierToken("y"), Keyword(":"),
                       IdentifierToken("i32") >> ELSE <<>>)
    \o << Keyword("}"),
          Keyword("fn"), IdentifierToken("other"), Keyword("("), IdentifierToken("x"),
          Keyword(":"), IdentifierToken("i32"), Keyword(")"), Keyword(":"),
          IdentifierToken("Foo"), Keyword("{"),
          IdentifierToken("Foo"), Keyword("{"), IdentifierToken("x"), Keyword(":"),
          IdentifierToken("x") >>
    \o (IF two THEN << Keyword(","), IdentifierToken("y"), Keyword(":"),
                       IdentifierToken("x"), Keyword("*"), IdentifierToken("x") >>
        ELSE <<>>)
    \o << Keyword("}"), Keyword("}") >>

\* other(n);
OtherCall(n) ==
  << IdentifierToken("other"), Keyword("(") >> \o I32Literal(n)
    \o << Keyword(")"), Keyword(";") >>

\* The sequences of up to MaxLaterCalls further calls other(n);
RECURSIVE LaterCalls(_)
LaterCalls(n) ==
  IF n = 0 THEN { <<>> }
  ELSE LET shorter == LaterCalls(n - 1)
       IN  shorter \cup { l \o OtherCall(b) : l \in shorter, b \in StructOperands }

\* let foo: Foo = other(a); other(b); ... foo.field
StructBody(a, later, field) ==
  << Keyword("let"), IdentifierToken("foo"), Keyword(":"), IdentifierToken("Foo"),
     Keyword("=") >> \o OtherCall(a) \o later
    \o << IdentifierToken("foo"), Keyword("."), IdentifierToken(field) >>

StructBodies ==
  { StructBody(a, later, field) :
      a \in StructOperands, later \in LaterCalls(MaxLaterCalls), field \in { "x", "y" } }

\* name()
CallOf(name) == << IdentifierToken(name), Keyword("("), Keyword(")") >>

\* fn name(): i32 { body }
PlainFunction(name, body) ==
  << Keyword("fn"), IdentifierToken(name), Keyword("("), Keyword(")"), Keyword(":"),
     IdentifierToken("i32"), Keyword("{") >> \o body \o << Keyword("}") >>

\* What the functions f and g end with: a call of f, a call of g, or 1_i32.
FunctionBodies == { CallOf("f"), CallOf("g"), I32Literal(1) }

\* fn f(): i32 { inF }  fn g(): i32 { inG }  pub fn test(): i32 { f() }
CallSource(inF, inG) ==
  PlainFunction("f", inF) \o PlainFunction("g", inG) \o TestFunction(CallOf("f"))

\* struct name { field: type }
OneFieldStruct(name, field, type) ==
  << Keyword("struct"), IdentifierToken(name), Keyword("{"), IdentifierToken(field),
     Keyword(":"), IdentifierToken(type), Keyword("}") >>

\* enum name { P }
UnitEnum(name) ==
  << Keyword("enum"), IdentifierToken(name), Keyword("{"), IdentifierToken("P"),
     Keyword("}") >>

\* The declarations a use needs:
\*   struct A { x: i32 }  struct B { x: i32 }, or enum E { P }  enum F { P },
\* then struct C { a: B } for a field, fn takes(b: B): i32 { 1_i32 } for a call
NominalSource(use, expected) ==
  (IF expected = "B"
     THEN OneFieldStruct("A", "x", "i32") \o OneFieldStruct("B", "x", "i32")
     ELSE UnitEnum("E") \o UnitEnum("F"))
    \o (IF use = "field" THEN OneFieldStruct("C", "a", "B") ELSE <<>>)
    \o (IF use = "argument"
          THEN << Keyword("fn"), IdentifierToken("takes"), Keyword("("),
                  IdentifierToken("b"), Keyword(":"), IdentifierToken("B"), Keyword(")"),
                  Keyword(":"), IdentifierToken("i32"), Keyword("{") >>
                 \o I32Literal(1) \o << Keyword("}") >>
          ELSE <<>>)

\* name { x: 1_i32 }  and  name::P
Construct(name) ==
  << IdentifierToken(name), Keyword("{"), IdentifierToken("x"), Keyword(":") >>
    \o I32Literal(1) \o << Keyword("}") >>
UnitOf(name) == << IdentifierToken(name), Keyword("::"), IdentifierToken("P") >>

\* let name: type = value
LetOf(name, type, value) ==
  << Keyword("let"), IdentifierToken(name), Keyword(":"), IdentifierToken(type),
     Keyword("=") >> \o value

\* The places a value is given where the type B (or F) is expected: a `let`
\* initialiser, a call argument, a struct field value, an operand of ==.
NominalUses == { "let", "argument", "field", "operand" }
NominalUse(use, value, expected) ==
  CASE use = "let"      -> LetOf("b", expected, value)
    [] use = "argument" -> << IdentifierToken("takes"), Keyword("(") >> \o value
                             \o << Keyword(")") >>
    [] use = "field"    -> LetOf("c", "C", << IdentifierToken("C"), Keyword("{"),
                                             IdentifierToken("a"), Keyword(":") >>
                                             \o value \o << Keyword("}") >>)
    [] use = "operand"  ->
         LetOf("e", "bool", (IF expected = "B" THEN Construct("B") ELSE UnitOf("F"))
                              \o << Keyword("==") >> \o value)

\* declarations  pub fn test(): i32 { use; 10_i32 }
NominalProgram(use, value, expected) ==
  NominalSource(use, expected)
    \o TestFunction(NominalUse(use, value, expected) \o << Keyword(";") >> \o I32Literal(10))

\* A value of struct A or B where B is expected, of enum E or F where F is
\* (a variant is no call argument of takes and no field of C), and 1_i32
\* where B is.
NominalPrograms ==
  { NominalProgram(use, Construct(given), "B") :
      use \in NominalUses, given \in { "A", "B" } }
  \cup { NominalProgram(use, UnitOf(given), "F") :
           use \in { "let", "operand" }, given \in { "E", "F" } }
  \cup { NominalProgram(use, I32Literal(1), "B") : use \in NominalUses }

\* struct Inner { v: i32 }, struct Outer with the fields b: i32 and a: Inner
\* in either order, and for a call  fn make(): Inner { Inner { v: 1_i32 } }
NestedSource(first, how) ==
  OneFieldStruct("Inner", "v", "i32")
    \o << Keyword("struct"), IdentifierToken("Outer"), Keyword("{") >>
    \o (IF first = "b"
          THEN << IdentifierToken("b"), Keyword(":"), IdentifierToken("i32"), Keyword(","),
                  IdentifierToken("a"), Keyword(":"), IdentifierToken("Inner") >>
          ELSE << IdentifierToken("a"), Keyword(":"), IdentifierToken("Inner"), Keyword(","),
                  IdentifierToken("b"), Keyword(":"), IdentifierToken("i32") >>)
    \o << Keyword("}") >>
    \o (IF how = "call"
          THEN << Keyword("fn"), IdentifierToken("make"), Keyword("("), Keyword(")"),
                  Keyword(":"), IdentifierToken("Inner"), Keyword("{"),
                  IdentifierToken("Inner"), Keyword("{"), IdentifierToken("v"),
                  Keyword(":") >> \o I32Literal(1) \o << Keyword("}"), Keyword("}") >>
          ELSE <<>>)

\* How the field a of Outer gets its value: from a variable bound before, from
\* a struct construction in place, or from a call that constructs the struct.
NestedHows == { "variable", "construction", "call" }
InnerConstruction ==
  << IdentifierToken("Inner"), Keyword("{"), IdentifierToken("v"), Keyword(":") >>
    \o I32Literal(1) \o << Keyword("}") >>

\* [let i: Inner = Inner { v: 1_i32 };] let o: Outer = Outer { b: 2_i32, a: value }; o.b
NestedBody(how) ==
  (IF how = "variable"
     THEN LetOf("i", "Inner", InnerConstruction) \o << Keyword(";") >> ELSE <<>>)
    \o LetOf("o", "Outer",
              << IdentifierToken("Outer"), Keyword("{"), IdentifierToken("b"),
                 Keyword(":") >> \o I32Literal(2)
                \o << Keyword(","), IdentifierToken("a"), Keyword(":") >>
                \o (CASE how = "variable"     -> << IdentifierToken("i") >>
                      [] how = "construction" -> InnerConstruction
                      [] how = "call"         -> CallOf("make"))
                \o << Keyword("}") >>)
    \o << Keyword(";"), IdentifierToken("o"), Keyword("."), IdentifierToken("b") >>

NestedProgram(first, how) == NestedSource(first, how) \o TestFunction(NestedBody(how))
NestedPrograms == { NestedProgram(first, how) : first \in { "a", "b" }, how \in NestedHows }

\* The source texts compile is given, as the words of each; the empty text
\* is one of them.
Programs ==
  { <<>> } \cup NominalPrograms \cup NestedPrograms \cup
  { TestFunction(body) : body \in ArithmeticBodies }
  \cup { CallSource(inF, inG) : inF \in FunctionBodies, inG \in FunctionBodies }
  \cup { EnumSource(valued) \o TestFunction(body) :
           valued \in BOOLEAN, body \in EnumBodies }
  \cup { StructSource(two) \o TestFunction(body) :
           two \in BOOLEAN, body \in StructBodies }

NoDiagnostic == [at |-> "none", error |-> NoError]
NoResult == [kind |-> "none", value |-> 0, calls |-> <<>>]

InitMood ==
  /\ BuilderInit /\ ExpInit /\ LexIdle /\ LayoutIdle /\ MeasureIdle /\ SymbolsIdle
  /\ ParserIdle
  /\ tokens \in { lexWords(words, 0, <<>>) : words \in Programs }
  /\ stage = "lexed"
  /\ program = null
  /\ nodeTypes = <<>>
  /\ diag = NoDiagnostic
  /\ wasm = [ctx |-> null, bytes |-> <<>>]
  /\ testResult = NoResult

\* const ast = Parser.parse(source)
Parse ==
  /\ stage = "lexed"
  /\ LET r == parse(tokens)
     IN  /\ IF Threw(r.P)
              THEN /\ stage' = "failed"
                   /\ diag' = [at |-> "parse", error |-> r.P.thrown]
                   /\ UNCHANGED program
              ELSE /\ stage' = "parsed"
                   /\ program' = r.node
                   /\ UNCHANGED diag
         /\ parser' = [at         |-> IF Threw(r.P) THEN "threw" ELSE "returned",
                       _nextIndex |-> r.P._nextIndex,
                       iterated   |-> r.P.iterated]
  /\ UNCHANGED << tokens, nodeTypes, wasm, testResult, builderVars, expVars,
                  lexVars, layoutVars, measureVars,
                  symbolVars >>

\* const typeTable = typeCheck(ast)
TypeCheck ==
  /\ stage = "parsed"
  /\ LET T == typeCheck(program)
     IN  IF Threw(T)
           THEN /\ stage' = "failed"
                /\ diag' = [at |-> "typeCheck", error |-> T.thrown]
                /\ UNCHANGED nodeTypes
           ELSE /\ stage' = "typed"
                /\ nodeTypes' = T._typeTable
                /\ UNCHANGED diag
  /\ UNCHANGED << tokens, program, wasm, testResult, builderVars, expVars,
                  lexVars, layoutVars, measureVars,
                  symbolVars, parserVars >>

\* const ctx = new ModuleContext(); Emitter.emit(ctx, ast, typeTable);
\* return ctx.compile()
Emit ==
  /\ stage = "typed"
  /\ LET E == emit(WasmEmitter(nodeTypes), program)
     IN  IF Threw(E)
           THEN /\ stage' = "failed"
                /\ diag' = [at |-> "emit", error |-> E.thrown]
                /\ UNCHANGED wasm
           ELSE /\ stage' = "emitted"
                /\ wasm' = [ctx |-> E.ctx, bytes |-> compileBytes(<<>>, E.ctx)]
                /\ UNCHANGED diag
  /\ UNCHANGED << tokens, program, nodeTypes, testResult, builderVars, expVars,
                  lexVars, layoutVars, measureVars,
                  symbolVars, parserVars >>

\* String(instance.exports.test())
Run ==
  /\ stage = "emitted"
  /\ stage' = "ran"
  /\ testResult' = RunTest(wasm.ctx)
  /\ UNCHANGED << tokens, program, nodeTypes, diag, wasm, builderVars, expVars,
                  lexVars, layoutVars, measureVars,
                  symbolVars, parserVars >>

NextMood == Parse \/ TypeCheck \/ Emit \/ Run

SpecMood == InitMood /\ [][NextMood]_vars

----------------------------------------------------------------------------
(* Mood: Lexer.lex, character by character (lexer.ts)                      *)
(* The code is the sequence of its characters.  One iteration of the       *)
(* `while (this.position < code.length)` loop is one step, except that the *)
(* loop skipping a line comment is followed one character at a time.       *)

\* How far past the end of the code the model counts this.position.
MaxOverrun == 2
\* The longest code made of every combination of the characters of Alphabet.
MaxCodeLen == 3

Lower == << "a", "b", "c", "d", "e", "f", "g", "h", "i", "j", "k", "l", "m",
            "n", "o", "p", "q", "r", "s", "t", "u", "v", "w", "x", "y", "z" >>
Numerals == << "0", "1", "2", "3", "4", "5", "6", "7", "8", "9" >>

\* code[i] of JavaScript: undefined past the end.
undefined == "undefined"
charAt(code, i) == IF i >= 0 /\ i < Len(code) THEN code[i + 1] ELSE undefined

\* char.charCodeAt(0) for the characters the model's codes are written in.
charCodeAt(char) ==
  IF \E i \in 1..26 : Lower[i] = char
    THEN 96 + (CHOOSE i \in 1..26 : Lower[i] = char)
  ELSE IF \E i \in 1..10 : Numerals[i] = char
    THEN 47 + (CHOOSE i \in 1..10 : Numerals[i] = char)
  ELSE CASE char = "\t" -> 9
         [] char = "\n" -> 10
         [] char = " "  -> 32
         [] char = "#"  -> 35
         [] char = "("  -> 40
         [] char = ")"  -> 41
         [] char = "*"  -> 42
         [] char = "+"  -> 43
         [] char = ","  -> 44
         [] char = "-"  -> 45
         [] char = "."  -> 46
         [] char = "/"  -> 47
         [] char = ":"  -> 58
         [] char = ";"  -> 59
         [] char = "="  -> 61
         [] char = "S"  -> 83
         [] char = "_"  -> 95
         [] char = "{"  -> 123
         [] char = "}"  -> 125

isNumeric(char) == charCodeAt(char) >= 48 /\ charCodeAt(char) <= 57
\* Ascii letters upper and lower case (and the six characters between them)
isIdentifierHead(char) == charCodeAt(char) >= 65 /\ charCodeAt(char) <= 122
isIdentifierTail(char) == isIdentifierHead(char) \/ isNumeric(char)

\* new Lexer(), about to run lex(code)
NewLexer(code) ==
  [code |-> code, tokens |-> <<>>, position |-> 0, line |-> 0, lineStart |-> 0,
   lastPosition |-> 0, lastLine |-> 0, lastLineStart |-> 0,
   at |-> "while", thrown |-> NoError]

\* Lexer.loc()
LexerLoc(L) ==
  [start |-> [offset |-> L.lastPosition, line |-> L.lastLine + 1,
              column |-> L.lastPosition - L.lastLineStart + 1],
   end   |-> [offset |-> L.position, line |-> L.line + 1,
              column |-> L.position - L.lineStart + 1]]

\* this.tokens.push({ type, value, loc: this.loc() })
pushToken(L, type, value) ==
  [L EXCEPT !.tokens = Append(@, [type |-> type, value |-> value, loc |-> LexerLoc(L)])]

\* Lexer.literal(literal), literal.length being the number of its characters
literal(L, type, length) ==
  pushToken([L EXCEPT !.position = @ + length], type, "")

\* The keyword cases of the switch, in the order they are written.  A case
\* tests the characters after the first and, when no keyword of it matches,
\* falls through to the next case.
KeywordCases ==
  << [char |-> "e", keywords |-> << [type |-> "enum", rest |-> << "n", "u", "m" >>],
                                    [type |-> "else", rest |-> << "l", "s", "e" >>] >>],
     [char |-> "f", keywords |-> << [type |-> "fn", rest |-> << "n" >>] >>],
     [char |-> "i", keywords |-> << [type |-> "if", rest |-> << "f" >>] >>],
     [char |-> "l", keywords |-> << [type |-> "let", rest |-> << "e", "t" >>] >>],
     [char |-> "p", keywords |-> << [type |-> "pub", rest |-> << "u", "b" >>] >>],
     [char |-> "r", keywords |-> << [type |-> "return",
                                     rest |-> << "e", "t", "u", "r", "n" >>] >>],
     [char |-> "s", keywords |-> << [type |-> "struct",
                                     rest |-> << "t", "r", "u", "c", "t" >>] >>],
     [char |-> "w", keywords |-> << [type |-> "while",
                                     rest |-> << "h", "i", "l", "e" >>] >>] >>

\* code[this.position + 1] === rest[1] && code[this.position + 2] === rest[2] ...
restMatches(L, rest) ==
  \A j \in 1..Len(rest) : charAt(L.code, L.position + j) = rest[j]

\* The keywords tested from case k on, in order.
KeywordsFrom(k) ==
  Flatten([i \in 1..(Len(KeywordCases) - k + 1) |-> KeywordCases[k + i - 1].keywords])

\* while (isIdentifierTail(code[this.position])) { identifier += ...; this.position++ }
\* and the same loop with isNumeric.  Reading code[this.position] past the
\* end gives undefined, and undefined.charCodeAt throws a TypeError.
RECURSIVE readWhile(_, _, _)
readWhile(L, text, numeric) ==
  LET char == charAt(L.code, L.position)
  IN  IF char = undefined
        THEN [L |-> [L EXCEPT !.thrown = TypeError(
                       "Cannot read properties of undefined (reading 'charCodeAt')")],
              text |-> text]
      ELSE IF (IF numeric THEN isNumeric(char) ELSE isIdentifierTail(char))
        THEN readWhile([L EXCEPT !.position = @ + 1], text \o char, numeric)
      ELSE [L |-> L, text |-> text]

\* The default case.
lexDefault(L, char) ==
  IF isIdentifierHead(char)
    THEN LET r == readWhile([L EXCEPT !.position = @ + 1], char, FALSE)
         IN  IF Threw(r.L) THEN r.L ELSE pushToken(r.L, "Identifier", r.text)
  ELSE IF isNumeric(char)
    THEN LET r == readWhile([L EXCEPT !.position = @ + 1], char, TRUE)
         IN  IF Threw(r.L) THEN r.L ELSE pushToken(r.L, "Number", r.text)
  ELSE [L EXCEPT !.thrown = Error("Failed to progress reading char " \o char)]

\* A keyword case and what it falls through to.
lexKeywordCases(L, char, k) ==
  LET matching == SelectSeq(KeywordsFrom(k), LAMBDA kw : restMatches(L, kw.rest))
  IN  IF matching # <<>>
        THEN literal(L, matching[1].type, Len(matching[1].rest) + 1)
        ELSE lexDefault(L, char)

\* The statements after the switch.
endOfIteration(L) ==
  IF Threw(L) THEN [L EXCEPT !.at = "threw"]
  ELSE [L EXCEPT !.lastPosition = L.position, !.lastLine = L.line,
                 !.lastLineStart = L.lineStart]

\* switch (char) { ... }, up to its break
lexSwitch(L, char) ==
  CASE char = "/" ->
         IF charAt(L.code, L.position + 1) = "/"
           THEN [L EXCEPT !.position = @ + 2, !.at = "comment"]
           ELSE endOfIteration(literal(L, char, 1))
    [] char \in { " ", "\t" } ->
         endOfIteration([L EXCEPT !.position = @ + 1])
    [] char = "\n" ->
         endOfIteration([L EXCEPT !.line = @ + 1, !.position = @ + 1,
                                  !.lineStart = L.position + 1])
    [] char \in { "(", ")", "{", "}", ",", ";", "+", "-", "*", ".", "_" } ->
         endOfIteration(literal(L, char, 1))
    [] char = "=" ->
         endOfIteration(IF charAt(L.code, L.position + 1) = "="
                          THEN literal(L, "==", 2) ELSE literal(L, "=", 1))
    [] char = ":" ->
         endOfIteration(IF charAt(L.code, L.position + 1) = ":"
                          THEN literal(L, "::", 2) ELSE literal(L, ":", 1))
    [] \E k \in 1..Len(KeywordCases) : KeywordCases[k].char = char ->
         endOfIteration(lexKeywordCases(L, char,
           CHOOSE k \in 1..Len(KeywordCases) : KeywordCases[k].char = char))
    [] OTHER ->
         endOfIteration(lexDefault(L, char))

\* One iteration of while (this.position < code.length), as far as its break
\* or, for a line comment, as far as the loop that skips it.
lexIteration ==
  /\ lexer.at = "while"
  /\ lexer.position < Len(lexer.code)
  /\ lexer' = lexSwitch(lexer, charAt(lexer.code, lexer.position))
  /\ UNCHANGED << builderVars, expVars, moodVars, layoutVars, measureVars,
                  symbolVars, parserVars >>

\* while (code[this.position] !== "\n") { this.position++; }: one round.
\* Every position past the end reads undefined, so the loop goes on there
\* for ever; the model counts MaxOverrun positions past the end and then
\* takes the position for the end again.
lexCommentChar ==
  /\ lexer.at = "comment"
  /\ charAt(lexer.code, lexer.position) # "\n"
  /\ lexer' = [lexer EXCEPT !.position =
                  IF @ >= Len(lexer.code) + MaxOverrun THEN Len(lexer.code) ELSE @ + 1]
  /\ UNCHANGED << builderVars, expVars, moodVars, layoutVars, measureVars,
                  symbolVars, parserVars >>

\* the comment loop is left at a "\n"; break; the statements after the switch
lexCommentEnd ==
  /\ lexer.at = "comment"
  /\ charAt(lexer.code, lexer.position) = "\n"
  /\ lexer' = endOfIteration([lexer EXCEPT !.at = "while"])
  /\ UNCHANGED << builderVars, expVars, moodVars, layoutVars, measureVars,
                  symbolVars, parserVars >>

\* this.tokens.push({ type: "EOF", loc: this.loc() }); return this.tokens
lexReturn ==
  /\ lexer.at = "while"
  /\ lexer.position >= Len(lexer.code)
  /\ lexer' = [pushToken(lexer, "EOF", "") EXCEPT !.at = "returned"]
  /\ UNCHANGED << builderVars, expVars, moodVars, layoutVars, measureVars,
                  symbolVars, parserVars >>

\* The characters every code of up to MaxCodeLen characters is made of.
Alphabet == { "/", "\n", " ", "f", "n", "1", "=", "#" }
ShortCodes == UNION { [1..k -> Alphabet] : k \in 0..MaxCodeLen }

\* Identifiers that begin with, or share letters with, a keyword, each
\* followed by a space or by nothing; and the keywords themselves.
KeywordLike ==
  { << "f", "n", "o", "r", "d" >>, << "l", "e", "t", "t", "e", "r" >>,
    << "p", "u", "b", "l", "i", "c" >>, << "e", "n", "d" >>,
    << "e", "f", "f", "e", "c", "t" >>, << "i", "f", "f" >>,
    << "r", "e", "t", "u", "r", "n", "s" >>, << "w", "h", "i", "l", "e", "d" >>,
    << "s", "t", "r", "u", "c", "t", "s" >>, << "e", "l", "s", "e", "w" >> }
KeywordTexts ==
  UNION { { << KeywordCases[k].char >> \o KeywordCases[k].keywords[j].rest :
              j \in 1..Len(KeywordCases[k].keywords) } : k \in 1..Len(KeywordCases) }
LongCodes ==
  { word \o end : word \in KeywordLike \cup KeywordTexts,
                  end \in { <<>>, << " " >>, << "(" >>, << ";", "\n" >> } }
    \cup { << "l", "e", "t", " ", "x", ":", "S", " ", "=", " ", "1", "0", "_", "i", ";",
              "/", "/", " ", "c" >> \o end : end \in { <<>>, << "\n" >> } }

Codes == ShortCodes \cup LongCodes

InitLex ==
  /\ BuilderInit /\ ExpInit /\ MoodIdle /\ LayoutIdle /\ MeasureIdle /\ SymbolsIdle
  /\ ParserIdle
  /\ lexer \in { NewLexer(code) : code \in Codes }

NextLex == lexIteration \/ lexCommentChar \/ lexCommentEnd \/ lexReturn

SpecLex == InitLex /\ [][NextLex]_vars

\* lex runs on: a step that can be taken is taken.
SpecLexFair == SpecLex /\ WF_vars(NextLex)

----------------------------------------------------------------------------
(* Mood: the struct cases of WasmEmitter.emit (examples/mood/WasmEmitter.ts) *)
(* What the StructConstruction case reserves for a struct and the offsets  *)
(* it stores the fields at, and the offset the MemberExpression case loads *)
(* a field from.  A struct type is [type, name, fields], a field           *)
(* [name, valueType].                                                      *)

\* The most fields a struct of the model declares.
MaxFields == 3

\* switch (field.valueType.type) { case "struct": case "i32": ... += 4 }
FieldStep(field) == IF field.valueType.type \in { "struct", "i32" } THEN 4 ELSE -1

\* let size = 0; for (const field of structType.fields) size += 4, or the
\* throw of the default case: -1
RECURSIVE ReservedSize(_, _, _)
ReservedSize(fields, i, size) ==
  IF i > Len(fields) THEN size
  ELSE IF FieldStep(fields[i]) < 0 THEN -1
  ELSE ReservedSize(fields, i + 1, size + FieldStep(fields[i]))

\* let offset = 0; for (const field of structType.fields) {
\*   this.exp.i32Store(offset, 0); offset += 4 }: the offsets stored at
RECURSIVE StoreOffsets(_, _, _, _)
StoreOffsets(fields, i, offset, stored) ==
  IF i > Len(fields) THEN stored
  ELSE StoreOffsets(fields, i + 1, offset + FieldStep(fields[i]), Append(stored, offset))

\* let offset = 0; for (const field of struct.fields) {
\*   if (field.name === ast.tail.name) break; offset += 4 }
RECURSIVE LoadOffset(_, _, _, _)
LoadOffset(fields, name, i, offset) ==
  IF i > Len(fields) \/ fields[i].name = name THEN offset
  ELSE LoadOffset(fields, name, i + 1, offset + 4)

\* case "StructConstruction"
emitStructConstructionCase ==
  /\ layout.at = "declared"
  /\ LET fields == layout.struct.fields
         size   == ReservedSize(fields, 1, 0)
     IN  layout' =
           IF size < 0
             THEN [layout EXCEPT !.at = "threw"]
             ELSE [layout EXCEPT !.at = "constructed", !.size = size,
                                 !.stores = StoreOffsets(fields, 1, 0, <<>>)]
  /\ UNCHANGED << builderVars, expVars, moodVars, lexVars, measureVars, symbolVars, parserVars >>

\* case "MemberExpression", ast.tail.name being the name of a field
emitMemberExpressionCase(tail) ==
  /\ layout.at = "constructed"
  /\ tail \in 1..Len(layout.struct.fields)
  /\ layout' = [layout EXCEPT !.at = "loaded", !.tail = tail,
                  !.load = LoadOffset(layout.struct.fields,
                                      layout.struct.fields[tail].name, 1, 0)]
  /\ UNCHANGED << builderVars, expVars, moodVars, lexVars, measureVars, symbolVars, parserVars >>

\* struct Single { a: i32 } and struct Pair { a: i32, b: i32 }
SingleStruct ==
  [type |-> "struct", name |-> "Single",
   fields |-> << [name |-> "a", valueType |-> [type |-> "i32"]] >>]
PairStruct ==
  [type |-> "struct", name |-> "Pair",
   fields |-> << [name |-> "a", valueType |-> [type |-> "i32"]],
                 [name |-> "b", valueType |-> [type |-> "i32"]] >>]
FieldTypes == { [type |-> "i32"], [type |-> "f64"], SingleStruct, PairStruct }
FieldNames == << "a", "b", "c", "d", "e" >>

\* Every struct of up to MaxFields fields of these types.
DeclaredStructs ==
  UNION { { [type |-> "struct", name |-> "S",
             fields |-> [i \in 1..n |-> [name |-> FieldNames[i], valueType |-> types[i]]]] :
              types \in [1..n -> FieldTypes] } : n \in 0..MaxFields }

InitLayout ==
  /\ BuilderInit /\ ExpInit /\ MoodIdle /\ LexIdle /\ MeasureIdle /\ SymbolsIdle
  /\ ParserIdle
  /\ layout \in { [at |-> "declared", struct |-> struct, size |-> 0, stores |-> <<>>,
                   tail |-> 0, load |-> 0] : struct \in DeclaredStructs }

NextLayout ==
  \/ emitStructConstructionCase
  \/ \E tail \in 1..MaxFields : emitMemberExpressionCase(tail)

SpecLayout == InitLayout /\ [][NextLayout]_vars

----------------------------------------------------------------------------
(* Mood: MemoryLayout.ts, as compile calls it between typeCheck and emit   *)
(* (const stackSizes = computeLayout(ast, typeTable)).  L is the           *)
(* MemoryLayout object, with the error it threw if it threw one; measure   *)
(* hands back [L, size].                                                   *)

MemoryLayout(typeTable) ==
  [_typeTable |-> typeTable, _stackSizes |-> <<>>, thrown |-> NoError]
MRet(L, size) == [L |-> L, size |-> size]

\* sizeOfId: TypeTable.lookup, then sizeOf
sizeOfId(L, nodeId) ==
  IF Threw(L) THEN MRet(L, 0)
  ELSE IF nodeId \notin DOMAIN L._typeTable
    THEN MRet(throw(L, Error("No type for AST node " \o ToString(nodeId))), 0)
  ELSE IF L._typeTable[nodeId].type \in { "function", "nil", "empty" }
    THEN MRet(throw(L, Error("TODO: Implement sizeOf for "
                               \o L._typeTable[nodeId].type)), 0)
  ELSE MRet(L, sizeOf(L._typeTable[nodeId]))

RECURSIVE measure(_, _), measureAll(_, _, _, _)

measureAll(L, nodes, i, size) ==
  IF Threw(L) \/ i > Len(nodes) THEN MRet(L, size)
  ELSE Let(measure(L, nodes[i]), LAMBDA one :
         measureAll(one.L, nodes, i + 1, size + one.size))

measure(L, node) ==
  IF Threw(L) THEN MRet(L, 0)
  ELSE CASE node.type = "Program" -> measureAll(L, node.body, 1, 0)
         [] node.type \in { "EnumDeclaration", "StructDeclaration" } -> MRet(L, 0)
         [] node.type = "FunctionDeclaration" ->
              Let(measure(L, node.body), LAMBDA stackSize :
                IF Threw(stackSize.L) THEN stackSize
                ELSE MRet([stackSize.L EXCEPT !._stackSizes =
                                                (node.nodeId :> stackSize.size) @@ @],
                          stackSize.size))
         [] node.type = "Parameter" -> sizeOfId(L, node.annotation.nodeId)
         [] node.type = "BlockExpression" -> measureAll(L, node.expressions, 1, 0)
         [] node.type = "VariableDeclaration" -> sizeOfId(L, node.annotation.nodeId)
         [] node.type \in { "CallExpression", "MemberExpression", "ExpressionPath",
                            "Literal", "Identifier", "StructConstruction" } ->
              sizeOfId(L, node.nodeId)
         [] node.type = "BinaryExpression" ->
              Let(measure(L, node.left), LAMBDA left :
              Let(measure(left.L, node.right), LAMBDA right :
                MRet(right.L, left.size + right.size)))
         [] OTHER -> MRet(throw(L, Error("Unknown node type: " \o node.type)), 0)

\* const stackSizes = computeLayout(ast, typeTable)
computeLayout ==
  /\ stage = "typed"
  /\ LET L == measure(MemoryLayout(nodeTypes), program).L
     IN  IF Threw(L)
           THEN /\ stage' = "failed"
                /\ diag' = [at |-> "computeLayout", error |-> L.thrown]
                /\ UNCHANGED memoryLayout
           ELSE /\ stage' = "measured"
                /\ memoryLayout' = [at |-> "returned", _stackSizes |-> L._stackSizes]
                /\ UNCHANGED diag
  /\ UNCHANGED << tokens, program, nodeTypes, wasm, testResult, builderVars, expVars,
                  lexVars, layoutVars, symbolVars, parserVars >>

NextMeasure == Parse \/ TypeCheck \/ computeLayout

SpecMeasure == InitMood /\ [][NextMeasure]_vars

----------------------------------------------------------------------------
(* Mood: SymbolTable.ts, the objects themselves.  The SymbolTable objects  *)
(* made so far are the entries of symbols.tables, a SymbolTable reference  *)
(* is an index into it, and _parent = 0 is the null parent.  The client    *)
(* calls define, lookup and child on any table it holds, in any order.     *)
(* The type checker's use of the tables is TypeCheck, on programs with     *)
(* two functions.                                                          *)

\* The SymbolTable objects a client makes.
MaxScopes == 3

SymbolNames == { "x", "y" }
SymbolTypes == { [type |-> "i32"], [type |-> "bool"] }

\* new SymbolTable(parent)
SymbolTable(parent) == [_variables |-> <<>>, _parent |-> parent]

\* this._variables.set(name, type)
SymbolTableDefine(tables, this, name, type) ==
  [tables EXCEPT ![this]._variables = (name :> type) @@ @]

\* lookup were this._variables.get(name) alone.
SymbolTableLookup_ownScopeOnly(tables, this, name) ==
  IF name \in DOMAIN tables[this]._variables THEN tables[this]._variables[name]
  ELSE null

RECURSIVE SymbolTableLookup(_, _, _)
SymbolTableLookup(tables, this, name) ==
  IF name \in DOMAIN tables[this]._variables THEN tables[this]._variables[name]
  ELSE IF tables[this]._parent # 0
    THEN SymbolTableLookup(tables, tables[this]._parent, name)
  ELSE null

\* return new SymbolTable(this)
SymbolTableChild(tables, this) == Append(tables, SymbolTable(this))

\* What the last call returned; of a lookup and a child call also the table
\* it was called on, of a lookup the name.
NoCall == [op |-> "none", this |-> 0, name |-> "", result |-> null]

defineCall(this, name, type) ==
  /\ symbols.at = "made"
  /\ this \in 1..Len(symbols.tables)
  /\ symbols' = [symbols EXCEPT
                   !.tables = SymbolTableDefine(symbols.tables, this, name, type),
                   !.ret = [op |-> "define", this |-> 0, name |-> "",
                            result |-> null]]
  /\ UNCHANGED << builderVars, expVars, moodVars, lexVars, layoutVars, measureVars, parserVars >>

lookupCall(this, name) ==
  /\ symbols.at = "made"
  /\ this \in 1..Len(symbols.tables)
  /\ symbols' = [symbols EXCEPT
                   !.ret = [op |-> "lookup", this |-> this, name |-> name,
                            result |-> SymbolTableLookup(symbols.tables, this, name)]]
  /\ UNCHANGED << builderVars, expVars, moodVars, lexVars, layoutVars, measureVars, parserVars >>

childCall(this) ==
  /\ symbols.at = "made"
  /\ this \in 1..Len(symbols.tables)
  /\ Len(symbols.tables) < MaxScopes
  /\ symbols' = [symbols EXCEPT
                   !.tables = SymbolTableChild(symbols.tables, this),
                   !.ret = [op |-> "child", this |-> this, name |-> "",
                            result |-> null]]
  /\ UNCHANGED << builderVars, expVars, moodVars, lexVars, layoutVars, measureVars, parserVars >>

\* fn f(a: i32): i32 { let y: i32 = a; y }
\* pub fn test(): i32 { let z: i32 = 1_i32; name }
ScopeProgram(name) ==
  << Keyword("fn"), IdentifierToken("f"), Keyword("("), IdentifierToken("a"),
     Keyword(":"), IdentifierToken("i32"), Keyword(")"), Keyword(":"),
     IdentifierToken("i32"), Keyword("{") >>
    \o LetOf("y", "i32", << IdentifierToken("a") >>)
    \o << Keyword(";"), IdentifierToken("y"), Keyword("}") >>
    \o TestFunction(LetOf("z", "i32", I32Literal(1))
                      \o << Keyword(";"), IdentifierToken(name) >>)

ScopeNames == { "a", "y", "z" }

\* Either a client holding the one table new SymbolTable() made, or compile
\* about to parse and type-check one of the two-function programs.
InitSymbols ==
  /\ BuilderInit /\ ExpInit /\ LexIdle /\ LayoutIdle /\ MeasureIdle /\ ParserIdle
  /\ \/ /\ MoodIdle
        /\ symbols = [at |-> "made", tables |-> << SymbolTable(0) >>, ret |-> NoCall]
     \/ /\ SymbolsIdle
        /\ tokens \in { lexWords(ScopeProgram(name), 0, <<>>) : name \in ScopeNames }
        /\ stage = "lexed"
        /\ program = null
        /\ nodeTypes = <<>>
        /\ diag = NoDiagnostic
        /\ wasm = [ctx |-> null, bytes |-> <<>>]
        /\ testResult = NoResult

NextSymbols ==
  \/ \E this \in 1..MaxScopes, name \in SymbolNames, type \in SymbolTypes :
       defineCall(this, name, type)
  \/ \E this \in 1..MaxScopes, name \in SymbolNames : lookupCall(this, name)
  \/ \E this \in 1..MaxScopes : childCall(this)
  \/ Parse
  \/ TypeCheck

SpecSymbols == InitSymbols /\ [][NextSymbols]_vars

----------------------------------------------------------------------------
(* Mood: Parser.parse on the token lists lex can return                    *)
(* Every list of up to MaxTokens tokens and every list lex returns for the *)
(* beginning of one of a few programs.                                     *)

MaxTokens == 3

\* One token of every type the parser tells from the others.
TokenChoices ==
  { Keyword(type) : type \in { "struct", "enum", "fn", "pub", "let", "{", "}",
                               "(", ")", ":", ",", ";", "::", ".", "=", "+",
                               "*", "==", "_" } }
  \cup { IdentifierToken("x"), IdentifierToken("true"), NumberToken(<< 1 >>) }

\* The lists of n tokens.
WordsOfLength(n) == [1..n -> TokenChoices]

\* The programs whose beginnings are parsed: between them they run every
\* loop of the parser.
BegunPrograms ==
  { NestedProgram("b", "call"),
    StructSource(TRUE) \o TestFunction(StructBody(10, OtherCall(20), "x")),
    EnumSource(TRUE)
      \o TestFunction(LetOf("x", "Maybe",
                            << IdentifierToken("Maybe"), Keyword("::"),
                               IdentifierToken("Some"), Keyword("(") >>
                              \o I32Literal(10)
                              \o << Keyword(","), IdentifierToken("true"), Keyword(")") >>)
                        \o << Keyword(";") >> \o I32Literal(10)) }

Beginnings ==
  UNION { { SubSeq(words, 1, n) : n \in 0..Len(words) } : words \in BegunPrograms }

InitParse ==
  /\ BuilderInit /\ ExpInit /\ LexIdle /\ LayoutIdle /\ MeasureIdle /\ SymbolsIdle
  /\ ParserIdle
  /\ \/ \E n \in 0..MaxTokens : \E words \in WordsOfLength(n) :
          tokens = lexWords(words, 0, <<>>)
     \/ \E words \in Beginnings : tokens = lexWords(words, 0, <<>>)
  /\ stage = "lexed"
  /\ program = null
  /\ nodeTypes = <<>>
  /\ diag = NoDiagnostic
  /\ wasm = [ctx |-> null, bytes |-> <<>>]
  /\ testResult = NoResult

NextParse == Parse

SpecParse == InitParse /\ [][NextParse]_vars

----------------------------------------------------------------------------
(* Claims                                                                  *)

SameShape(a, b) == a.params = b.params /\ a.results = b.results

\* C1: after any sequence of declareFunction calls the type list holds no two
\* structurally equal (params, results) entries, two functions declared with
\* equal params and results carry the same type index, and that index names
\* an entry of their shape; N declarations of one shape leave one entry.
C1_FunctionTypesDeduplicated ==
  /\ \A i, j \in 1..Len(_funcTypes) :
       i # j => ~SameShape(_funcTypes[i], _funcTypes[j])
  /\ \A i, j \in 1..Len(declared) :
       SameShape(declared[i], declared[j]) => _functions[i] = _functions[j]
  /\ \A i \in 1..Len(declared) :
       /\ _functions[i] \in 0..(Len(_funcTypes) - 1)
       /\ SameShape(_funcTypes[_functions[i] + 1], declared[i])
  /\ (declared # <<>> /\ \A i \in 1..Len(declared) : SameShape(declared[i], declared[1]))
       => Len(_funcTypes) = 1

\* Three declarations, two of one shape and one of another: two type entries.
C1_Witness ==
  /\ Len(declared) = 3
  /\ SameShape(declared[1], declared[3])
  /\ ~SameShape(declared[1], declared[2])
  /\ Len(_funcTypes) = 2

AllowedSectionIds == { 1, 3, 5, 6, 7, 10 }

\* C2: compile() writes the eight preamble bytes first and then sections whose
\* ids are strictly increasing and among 1, 3, 5, 6, 7, 10: the ids 2, 4, 8, 9
\* and 11 never appear as a section id.
C2_PreambleThenSectionsInOrder ==
  pc = "compiled" =>
    /\ Len(_bytes) >= Len(Preamble)
    /\ SubSeq(_bytes, 1, Len(Preamble)) = Preamble
    /\ LET secs == SectionsOf(_bytes)
       IN  /\ \A i \in 1..Len(secs) : secs[i].id \in AllowedSectionIds
           /\ \A i \in 1..(Len(secs) - 1) : secs[i].id < secs[i + 1].id
           /\ \A i \in 1..Len(secs) : secs[i].id \notin { 2, 4, 8, 9, 11 }

\* A compiled module in which no section is empty.
C2_Witness ==
  /\ pc = "compiled"
  /\ Len(_functions) >= 1 /\ Len(_memories) = 1 /\ Len(_globals) >= 1
  /\ Len(_exports) >= 1
  /\ Len(SectionsOf(_bytes)) = 6

\* C7: a ModuleContext holds at most one memory: a defineMemory call that
\* returns has returned index 0, and a defineMemory call made when a memory
\* exists throws and leaves the memory list as it was.
C7_AtMostOneMemory ==
  /\ [](Len(_memories) <= 1)
  /\ []((ret.op = "defineMemory" /\ ~ret.threw) => (ret.value = 0 /\ Len(_memories) = 1))
  /\ [][\A mem \in MemTypes :
          (defineMemory(mem) /\ Len(_memories) > 0)
            => (ret'.threw /\ ret'.op = "defineMemory" /\ _memories' = _memories)]_vars

\* A second defineMemory call has thrown.
C7_Witness == ret.op = "defineMemory" /\ ret.threw /\ Len(_memories) = 1

\* C9: for a function with p parameters the k-th defineLocal call returns
\* p + k - 1, the position of the local in the declaration list offset by p;
\* so the indices are distinct, increasing and never a parameter index.
C9_DefineLocalReturnsAbsoluteIndex ==
  \A f \in 1..Len(_code) :
    LET p == Len(_code[f]._params)
    IN  /\ Len(localsReturned[f]) = Len(_code[f]._locals)
        /\ \A k \in 1..Len(localsReturned[f]) :
             /\ localsReturned[f][k] = p + k - 1
             /\ localsReturned[f][k] \notin 0..(p - 1)
        /\ \A k, l \in 1..Len(localsReturned[f]) :
             k < l => localsReturned[f][k] < localsReturned[f][l]

\* A function with two parameters on which defineLocal was called twice.
C9_Witness ==
  \E f \in 1..Len(_code) :
    /\ Len(_code[f]._params) = 2
    /\ localsReturned[f] = << 2, 3 >>

\* C10: the k-th declareFunction call returned k-1, and entry k-1 of the
\* function section and of the code section belong to that call;
\* defineFunction(i, cb) gives cb the FunctionContext of function i only, and
\* with an index never returned it throws without invoking cb.
C10_State ==
  /\ Len(declared) = Len(_functions) /\ Len(declared) = Len(_code)
  /\ \A k \in 1..Len(declared) :
       /\ declared[k].index = k - 1
       /\ SameShape(_funcTypes[_functions[k] + 1], declared[k])
       /\ _code[k]._params = declared[k].params
       /\ _code[k]._results = declared[k].results
  /\ (ret.op = "declareFunction") => ret.value = Len(declared) - 1
  /\ pc = "compiled" =>
       /\ SectionBody(_bytes, 3) = << Len(declared) >> \o _functions
       /\ LET entries == CodeEntries(SectionBody(_bytes, 10))
          IN  /\ Len(entries) = Len(declared)
              /\ \A k \in 1..Len(entries) :
                   IsSuffix(_code[k].exp \o << 11 >>, entries[k])

C10_Step ==
  \A index \in -1..Len(_code), cb \in Callbacks :
    defineFunction(index, cb) =>
      /\ \A k \in 1..Len(_code) : k # index + 1 => _code'[k] = _code[k]
      /\ Len(_code') = Len(_code)
      /\ (index \notin { d.index : d \in { declared[k] : k \in 1..Len(declared) } })
           => (ret'.threw /\ _code' = _code)
      /\ (\E k \in 1..Len(declared) : declared[k].index = index) => ~ret'.threw

C10_FunctionIndicesAligned == []C10_State /\ [][C10_Step]_vars

\* Two functions, the second one's body calls the first, compiled.
C10_Witness ==
  /\ pc = "compiled"
  /\ Len(declared) = 2
  /\ _code[2].exp = << 16, 0 >>
  /\ ~SameShape(declared[1], declared[2])

InU32(n) == n >= 0
InI32(n) == n >= -2147483647 - 1 /\ n <= 2147483647

\* C8: an instruction method given an out-of-range immediate (an index or
\* offset outside 0..2^32-1, an i32.const value outside -2^31..2^31-1) throws
\* at that call and appends nothing.
C8_OutOfRangeImmediateRaises ==
  LET outOfRange ==
        \/ expRet.m \in U32Methods /\ ~InU32(expRet.args[1])
        \/ expRet.m \in MemMethods /\ (~InU32(expRet.args[1]) \/ ~InU32(expRet.args[2]))
        \/ expRet.m = "i32Const" /\ ~InI32(expRet.args[1])
  IN  outOfRange => (expRet.threw /\ expBytes = expRet.before)

----------------------------------------------------------------------------
(* Claims about the Mood compiler                                          *)

TokensOf(words) == lexWords(words, 0, <<>>)

\* After a successful parse the Program node is kept in every later stage.
Parsed == stage \in { "parsed", "typed", "emitted", "ran" } \/ diag.at \in { "typeCheck", "emit" }

\* The expression test() ends with: the last expression of its block.
TestBody ==
  LET function == program.body[Len(program.body)]
  IN  function.body.expressions[Len(function.body.expressions)]

\* An expression tree without its spans and node ids.
RECURSIVE TreeOf(_)
TreeOf(node) ==
  IF node.type = "BinaryExpression"
    THEN [operator |-> node.operator, left |-> TreeOf(node.left), right |-> TreeOf(node.right)]
  ELSE IF node.type = "Literal"
    THEN [operator |-> "literal", left |-> node.value, right |-> node.annotation.name]
  ELSE [operator |-> node.type, left |-> null, right |-> null]

LiteralTree(n) ==
  [operator |-> "literal",
   left |-> parseFloat(DigitsOf(n), <<>>),
   right |-> "i32"]
BinaryTree(operator, left, right) == [operator |-> operator, left |-> left, right |-> right]

\* The programs a + b * c and a * b + c, as the tokens lex gives.
MixedPrograms ==
  { [a |-> a, b |-> b, c |-> c,
     sumFirst     |-> TokensOf(TestFunction(Unparenthesised(a, "+", b, "*", c))),
     productFirst |-> TokensOf(TestFunction(Unparenthesised(a, "*", b, "+", c)))] :
      a \in Operands, b \in Operands, c \in Operands }

\* C3: the parser builds a + b * c as a + (b * c) and a * b + c as (a * b) + c,
\* so that the compiled program returns a + b * c, resp. a * b + c:
\* 2_i32 + 3_i32 * 4_i32 yields 14.
C3_MultiplicationBindsTighterThanAddition ==
  \A p \in MixedPrograms :
   LET a == p.a  b == p.b  c == p.c
   IN
    /\ tokens = p.sumFirst =>
         /\ Parsed => TreeOf(TestBody)
                        = BinaryTree("+", LiteralTree(a),
                                     BinaryTree("*", LiteralTree(b), LiteralTree(c)))
         /\ stage = "ran" => testResult.kind = "value" /\ testResult.value = a + b * c
    /\ tokens = p.productFirst =>
         /\ Parsed => TreeOf(TestBody)
                        = BinaryTree("+", BinaryTree("*", LiteralTree(a), LiteralTree(b)),
                                     LiteralTree(c))
         /\ stage = "ran" => testResult.kind = "value" /\ testResult.value = a * b + c

\* The programs a == b, as the tokens lex gives.
EqualityPrograms ==
  { [a |-> a, b |-> b,
     tokens |-> TokensOf(TestFunction(I32Literal(a) \o << Keyword("==") >>
                                        \o I32Literal(b)))] :
      a \in Operands, b \in Operands }

\* C4: pub fn test(): i32 { a_i32 == b_i32 } compiles without a diagnostic, and
\* the compiled test() returns 1 when the operands are equal (0 when not).
C4_EqualityProgramCompilesAndReturnsOne ==
  \A p \in EqualityPrograms :
    tokens = p.tokens =>
      /\ stage # "failed"
      /\ diag = NoDiagnostic
      /\ stage = "ran" => /\ testResult.kind = "value"
                          /\ testResult.value = (IF p.a = p.b THEN 1 ELSE 0)

\* The programs that keep the struct other(a) returned, call other again and
\* then read a field of the first, as the tokens lex gives.  Foo has the field
\* y when it is declared with two fields.
StructProgram(two, a, later, field) ==
  [a |-> a, later |-> later, field |-> field,
   tokens |-> TokensOf(StructSource(two) \o TestFunction(StructBody(a, later, field)))]
StructPrograms ==
  { StructProgram(two, a, later, "x") :
      two \in BOOLEAN, a \in StructOperands, later \in LaterCalls(MaxLaterCalls) }
  \cup { StructProgram(TRUE, a, later, "y") :
            a \in StructOperands, later \in LaterCalls(MaxLaterCalls) }

\* The addresses the calls of other() returned, in the order they returned.
Addresses == [i \in 1..Len(testResult.calls) |-> testResult.calls[i].values]

LetValue ==
  LET function == program.body[Len(program.body)]
  IN  function.body.expressions[1].value

\* An enum variant construction in call form with more than one argument: the
\* path names the declared enum and one of its variants.
ConstructsVariantWithSeveralArguments ==
  /\ Parsed
  /\ program.body[1].type = "EnumDeclaration"
  /\ LetValue.type = "ExpressionPath"
  /\ LetValue.head.name = program.body[1].id.name
  /\ LetValue.tail.type = "CallExpression"
  /\ \E i \in 1..Len(program.body[1].variants) :
       program.body[1].variants[i].id.name = LetValue.tail.callee.name
  /\ Len(LetValue.tail.args) > 1

\* C6: type-checking an enum variant construction in call form with n > 1
\* arguments raises the diagnostic
\*   Variant "<name>" is not a unit variant. Expected a single value argument, but got <n>.
\* whose span runs from the second argument to the last, whether or not the
\* variant is declared with a value; no later stage runs.
C6_SeveralArgumentsDiagnostic ==
  ConstructsVariantWithSeveralArguments =>
    LET args == LetValue.tail.args
        n    == Len(args)
    IN  /\ stage \in { "parsed", "failed" }
        /\ wasm = [ctx |-> null, bytes |-> <<>>]
        /\ testResult = NoResult
        /\ stage = "failed" =>
             /\ diag.at = "typeCheck"
             /\ diag.error.kind = "DiagnosticError"
             /\ diag.error.message
                  = "Variant \"" \o LetValue.tail.callee.name
                      \o "\" is not a unit variant. Expected a single value argument, but got "
                      \o ToString(n) \o "."
             /\ diag.error.loc = [start |-> args[2].loc.start, end |-> args[n].loc.end]

\* Maybe::Some(10_i32, true, 10_i32) has been type-checked.
C6_Witness ==
  /\ ConstructsVariantWithSeveralArguments
  /\ Len(LetValue.tail.args) = 3
  /\ stage = "failed"
  /\ diag.at = "typeCheck"
  /\ diag.error.message
       = "Variant \"Some\" is not a unit variant. Expected a single value argument, but got 3."

----------------------------------------------------------------------------
(* Claims about the encodings                                              *)

\* The signed LEB128 number the bytes spell, read as a WebAssembly decoder
\* reads an s32: seven bits a byte, low bits first, the sign taken from bit 6
\* of the last byte.  The fifth byte holds the four bits 28..31 in its low
\* four bits; its bits 4..6 repeat the sign.
RECURSIVE ReadS32(_, _, _)
ReadS32(bytes, i, acc) ==
  LET b == bytes[i]
      p == b % 128
  IN  IF i = 5
        THEN acc + (IF p % 16 >= 8 THEN (p % 16) - 16 ELSE p % 16) * 268435456
      ELSE IF i < Len(bytes)
        THEN ReadS32(bytes, i + 1, acc + p * 128 ^ (i - 1))
      ELSE acc + (IF p >= 64 THEN p - 128 ELSE p) * 128 ^ (i - 1)

\* The number of bytes of the shortest signed LEB128 encoding of v.
RECURSIVE CanonicalLength(_, _)
CanonicalLength(v, n) ==
  IF n = 5 \/ (-(2 ^ (7 * n - 1)) <= v /\ v < 2 ^ (7 * n - 1)) THEN n
  ELSE CanonicalLength(v, n + 1)

\* The bytes the last call appended after its opcode byte.
Immediate == SubSeq(expBytes, Len(expRet.before) + 2, Len(expBytes))

\* C11: for every int32 v, appendI32 appends the canonical signed LEB128
\* encoding of v: at most five bytes, as few as v needs, the continuation bit
\* set on every byte but the last, and decoding the bytes gives v back.
C11_AppendI32IsCanonicalSignedLEB128 ==
  (expRet.m = "i32Const" /\ InI32(expRet.args[1])) =>
    LET v == expRet.args[1]
        n == Len(Immediate)
    IN  /\ n >= 1 /\ n <= 5
        /\ n = CanonicalLength(v, 1)
        /\ \A i \in 1..(n - 1) : Immediate[i] >= 128
        /\ Immediate[n] < 128
        /\ \A i \in 1..n : Immediate[i] \in 0..255
        /\ n = 5 => Immediate[5] \in (0..7) \cup (120..127)
        /\ ReadS32(Immediate, 1, 0) = v
        /\ expBytes[Len(expRet.before) + 1] = 65

\* i32Const(-2147483648) has been called: five bytes 80 80 80 80 78.
C11_Witness ==
  /\ expRet.m = "i32Const"
  /\ expRet.args[1] = -2147483647 - 1
  /\ Immediate = << 128, 128, 128, 128, 120 >>

\* A section as the decoder met it: the id, the length prefix, the body.
SectionBytes(sec) == << sec.id >> \o appendU32(<<>>, Len(sec.body)) \o sec.body

\* What the function given to _writeSection writes for each section id.
SectionContent(id) ==
  CASE id = 1  -> _writeVec(<<>>, _funcTypes, _writeFunctionType)
    [] id = 3  -> _writeVec(<<>>, _functions, _writeIndex)
    [] id = 5  -> _writeVec(<<>>, _memories, _writeLimits)
    [] id = 6  -> _writeVec(<<>>, _globals, _writeGlobal)
    [] id = 7  -> _writeVec(<<>>, _exports, _writeExport)
    [] id = 10 -> _writeVec(<<>>, _code, _writeCode)

\* C12: the length prefix of every section compile() writes, and of every
\* entry of the code section, is the number of bytes of the body after it:
\* a decoder that goes by the prefixes finds the six sections one after the
\* other up to the last byte, each body what the section's writer wrote, and
\* finds in the code section one entry per function, each the function's
\* locals and expression; also with a length of two LEB128 bytes.
C12_LengthPrefixesAreExact ==
  pc = "compiled" =>
    LET secs    == SectionsOf(_bytes)
        entries == CodeEntries(SectionBody(_bytes, 10))
    IN  /\ \A i \in 1..Len(secs) : secs[i] # Malformed
        /\ Preamble \o Flatten([i \in 1..Len(secs) |-> SectionBytes(secs[i])]) = _bytes
        /\ Len(secs) = 6
        /\ \A i \in 1..Len(secs) : secs[i].body = SectionContent(secs[i].id)
        /\ Len(entries) = Len(_code)
        /\ \A k \in 1..Len(entries) :
             entries[k] = _writeLocalDeclarations(_code[k]._locals)
                            \o _writeExpression(_code[k].exp)
        /\ appendU32(<<>>, Len(entries))
             \o Flatten([k \in 1..Len(entries) |->
                           appendU32(<<>>, Len(entries[k])) \o entries[k]])
             = SectionBody(_bytes, 10)

\* A compiled module with a function body of 132 bytes: the code entry and the
\* code section both have a length of two LEB128 bytes.
C12_Witness ==
  /\ pc = "compiled"
  /\ \E k \in 1..Len(_code) : Len(_code[k].exp) = 132
  /\ LET body == SectionBody(_bytes, 10)
     IN  /\ Len(body) >= 128
         /\ SubSeq(body, 1, 3) = << Len(_code), 134, 1 >>


\* The required-opcode table for the numeric instructions: method |-> byte.
RequiredNumericOpcode ==
  [ i32Eq |-> 70, f64Eq |-> 97, i32Add |-> 106, i32Sub |-> 107, i32Mul |-> 108,
    f64Add |-> 160, f64Sub |-> 161, f64Mul |-> 162, i32TruncF64S |-> 170 ]

\* C13: each numeric instruction method appends exactly the opcode byte of the
\* required-opcode table and nothing else.  (f64Eq pushes 0x5B, not 0x61.)
C13_NumericMethodsAppendRequiredOpcode ==
  expRet.m \in DOMAIN RequiredNumericOpcode =>
    expBytes = Append(expRet.before, RequiredNumericOpcode[expRet.m])

\* lex has returned the token list, or has thrown.
LexEnded == lexer.at \in { "returned", "threw" }

\* C14: for every source, lex terminates, by returning or by raising an
\* error, and a returned token list ends with an EOF token, its only one.
\* (A `//` comment that no newline follows is skipped forever.)
C14_LexTerminatesWithOneEOF ==
  /\ <>LexEnded
  /\ [](lexer.at = "returned" =>
          /\ lexer.tokens # <<>>
          /\ \A i \in 1..Len(lexer.tokens) :
               lexer.tokens[i].type = "EOF" <=> i = Len(lexer.tokens))

KeywordTypes == { "fn", "let", "pub", "if", "else", "while", "return", "enum", "struct" }

\* The string of a sequence of characters.
RECURSIVE Join(_)
Join(chars) == IF chars = <<>> THEN "" ELSE Head(chars) \o Join(Tail(chars))

\* C15: a keyword token is emitted only when a character that cannot continue
\* an identifier follows the keyword's characters; an identifier that begins
\* with or shares letters with a keyword is lexed as one Identifier token.
\* (`fnord ` is lexed as fn, Identifier ord; `end ` as fn, Identifier d.)
C15_KeywordOnlyBeforeNonIdentifierCharacter ==
  lexer.at = "returned" =>
    /\ \A i \in 1..Len(lexer.tokens) :
         lexer.tokens[i].type \in KeywordTypes =>
           LET after == charAt(lexer.code, lexer.tokens[i].loc.end.offset)
           IN  after = undefined \/ ~isIdentifierTail(after)
    /\ \A word \in KeywordLike :
         lexer.code = word \o << " " >> =>
           /\ Len(lexer.tokens) = 2
           /\ lexer.tokens[1].type = "Identifier"
           /\ lexer.tokens[1].value = Join(word)
           /\ lexer.tokens[2].type = "EOF"


\* The nodes an AST node holds, in the order the parser made them.
Children(node) ==
  CASE node.type = "Literal"          -> << node.annotation >>
    [] node.type = "StructField"      -> << node.id, node.annotation >>
    [] node.type = "Parameter"        -> << node.name, node.annotation >>
    [] node.type = "Variant"          -> << node.id, node.valueType >>
    [] node.type = "MemberExpression" -> << node.head, node.tail >>
    [] node.type = "ExpressionPath"   -> << node.head, node.tail >>
    [] node.type = "StructConstruction" -> << node.id >> \o node.fields
    [] node.type = "StructFieldConstruction" -> << node.name, node.value >>
    [] node.type = "CallExpression"   -> << node.callee >> \o node.args
    [] node.type = "VariableDeclaration" -> << node.name, node.annotation, node.value >>
    [] node.type = "BinaryExpression" -> << node.left, node.right >>
    [] node.type = "BlockExpression"  -> node.expressions
    [] node.type = "StructDeclaration" -> << node.id >> \o node.fields
    [] node.type = "FunctionDeclaration" ->
         << node.id >> \o node.params \o << node.returnType, node.body >>
    [] node.type = "EnumDeclaration"  -> << node.id >> \o node.variants
    [] node.type = "Program"          -> node.body
    [] OTHER                          -> <<>>

\* The node types the parser makes without a nodeId.
WithoutNodeId == { "StructField", "Variant", "StructDeclaration", "EnumDeclaration",
                   "Program", "null" }

\* The node-ids the nodes of a tree carry, one entry per node carrying one.
RECURSIVE NodeIds(_)
NodeIds(node) ==
  (IF node.type \in WithoutNodeId THEN <<>> ELSE << node.nodeId >>)
    \o Flatten([i \in 1..Len(Children(node)) |-> NodeIds(Children(node)[i])])

\* C16: after a parse the node-ids the parser handed out are exactly 0..n-1
\* and no two nodes of the tree carry the same one: n ids were handed out, n
\* nodes carry an id, and the ids carried are the numbers 0..n-1.
C16_NodeIdsDenseAndUnique ==
  stage = "parsed" =>
    LET ids == NodeIds(program)
        n   == parse(tokens).P._nextNodeId
    IN  /\ Len(ids) = n
        /\ { ids[i] : i \in 1..Len(ids) } = 0..(n - 1)

\* A parsed program with an enum declaration (nodes without an id) and a
\* boolean literal (whose annotation takes an id before the literal does).
C16_Witness ==
  /\ stage = "parsed"
  /\ \E i \in 1..Len(program.body) : program.body[i].type = "EnumDeclaration"
  /\ \E i \in 1..Len(tokens) : tokens[i].type = "Identifier" /\ tokens[i].value = "true"
  /\ Len(NodeIds(program)) >= 12


\* The nodes tc is called on below a node, which are the nodes emit is called
\* on: the definitions of a program, the body of a function, the expressions
\* of a block, the operands, arguments and values of an expression.
VisitedBelow(node) ==
  CASE node.type = "Program"             -> node.body
    [] node.type = "FunctionDeclaration" -> << node.body >>
    [] node.type = "BlockExpression"     -> node.expressions
    [] node.type = "BinaryExpression"    -> << node.left, node.right >>
    [] node.type = "CallExpression"      -> node.args
    [] node.type = "VariableDeclaration" -> << node.value >>
    [] node.type = "StructConstruction"  ->
         [i \in 1..Len(node.fields) |-> node.fields[i].value]
    [] node.type = "MemberExpression"    -> << node.head >>
    [] node.type = "ExpressionPath"      ->
         IF node.tail.type = "CallExpression" THEN node.tail.args ELSE <<>>
    [] OTHER                             -> <<>>

RECURSIVE Visited(_)
Visited(node) ==
  { node } \cup UNION { Visited(VisitedBelow(node)[i]) : i \in 1..Len(VisitedBelow(node)) }

ExpressionNodeTypes ==
  { "BlockExpression", "CallExpression", "ExpressionPath", "MemberExpression",
    "StructConstruction", "VariableDeclaration", "Identifier", "Literal",
    "BinaryExpression" }

\* C17: when typeCheck has accepted a program, every expression node it visited
\* and the emitter visits (BlockExpression, CallExpression, ExpressionPath,
\* MemberExpression, StructConstruction, VariableDeclaration, Identifier,
\* Literal among them) has an entry in the TypeTable under its node-id.
\* (tcBlockExpression defines no entry for the block.)
C17_VisitedExpressionNodesAreTyped ==
  stage = "typed" =>
    \A node \in Visited(program) :
      node.type \in ExpressionNodeTypes => node.nodeId \in DOMAIN nodeTypes


\* C18: the offsets the emitter uses for a struct's fields are strictly
\* increasing in declaration order and contiguous with respect to sizeOf, the
\* size it reserves is the sum of the fields' sizes, and a field is loaded
\* from the offset it was stored at; also when a field's type is a struct.
\* (A field of a struct type is given four bytes, whatever its sizeOf is.)
C18_FieldOffsetsContiguousWithSizeOf ==
  layout.at \in { "constructed", "loaded" } =>
    LET fields == layout.struct.fields
        stores == layout.stores
    IN  /\ Len(stores) = Len(fields)
        /\ \A i \in 1..(Len(fields) - 1) :
             /\ stores[i] < stores[i + 1]
             /\ stores[i] + sizeOf(fields[i].valueType) = stores[i + 1]
        /\ layout.size = sizeOfFields(fields, 1)
        /\ layout.at = "loaded" => layout.load = stores[layout.tail]


\* C19: prologue and epilogue are balanced: when a call returns, the
\* shadow-stack globals bsp and sp hold the values they held before the call,
\* so what a callee allocated is released and repeated calls do not use up
\* the shadow stack.  (The epilogue restores bsp; nothing restores sp.)
C19_ShadowStackRestoredOnReturn ==
  (stage = "ran" /\ testResult.kind = "value") =>
    \A i \in 1..Len(testResult.calls) :
      testResult.calls[i].after = testResult.calls[i].before


\* C20: for every program typeCheck accepts, emit completes: it raises no
\* internal error (Unknown local, Unknown function, Unknown type, TODO, a
\* missing type).  (A unit variant of an enum that also declares a variant
\* with a value is accepted, and emit throws the TODO error on it.)
C20_AcceptedProgramsAreEmitted == diag.at # "emit"


\* The function declaration of a parsed program with the given name.
DeclarationOf(name) ==
  CHOOSE d \in { program.body[i] : i \in 1..Len(program.body) } :
    d.type = "FunctionDeclaration" /\ d.id.name = name

\* The names of the functions the body of the function calls.
CalleesOf(name) ==
  { node.callee.name : node \in { n \in Visited(DeclarationOf(name)) :
                                    n.type = "CallExpression" } }

\* Whether typeCheck has run on the parsed program, and accepted it.
TypeChecked == stage \in { "typed", "emitted", "ran" } \/ diag.at \in { "typeCheck", "emit" }
Accepted == stage \in { "typed", "emitted", "ran" } \/ diag.at = "emit"

\* C21: mutual calls type-check and recursive calls do not: a program in which
\* f's body calls g and g's body calls f is accepted by typeCheck, and a
\* program with a function whose body calls itself is rejected by it.
\* (The symbol is defined before the body is checked, so f() in f is a call
\* of a defined function, and g() in f, before g is declared, is not.)
C21_MutualCallsAcceptedRecursiveRejected ==
  \A inF \in FunctionBodies, inG \in FunctionBodies :
    (tokens = TokensOf(CallSource(inF, inG)) /\ TypeChecked) =>
      /\ (CalleesOf("f") = { "g" } /\ CalleesOf("g") = { "f" }) => Accepted
      /\ ("f" \in CalleesOf("f") \/ "g" \in CalleesOf("g")) => ~Accepted


\* The programs that give a value of struct A where struct B is expected, or
\* of enum E where enum F is, as the tokens lex gives.
DeclarationMismatches ==
  { TokensOf(NominalProgram(use, Construct("A"), "B")) : use \in NominalUses }
  \cup { TokensOf(NominalProgram(use, UnitOf("E"), "F")) :
           use \in { "let", "operand" } }

\* C22: expectType raises a type-mismatch diagnostic whenever the node's type
\* differs from the expected type, also when both are struct types (or both
\* enum types) from different declarations: a value of struct A is rejected
\* as a call argument, `let` initialiser, struct field value or == operand
\* where struct B is expected.  (expectType compares the tags "struct",
\* "enum", ... only.)
C22_OtherDeclarationIsAMismatch ==
  (tokens \in DeclarationMismatches /\ TypeChecked) =>
    /\ ~Accepted
    /\ diag.error.kind = "DiagnosticError"


\* The variant of the declared enum that let x: Maybe = ... names, or null.
NamedVariant ==
  LET name == IF LetValue.tail.type = "CallExpression" THEN LetValue.tail.callee.name
              ELSE LetValue.tail.name
      ofEnum == { program.body[1].variants[i] : i \in 1..Len(program.body[1].variants) }
  IN  IF \E v \in ofEnum : v.id.name = name
        THEN CHOOSE v \in ofEnum : v.id.name = name
        ELSE null

\* A path that names a variant of the ofEnum enum in the wrong form.
MisusesVariantForm ==
  /\ Parsed
  /\ program.body[1].type = "EnumDeclaration"
  /\ LetValue.type = "ExpressionPath"
  /\ LetValue.head.name = program.body[1].id.name
  /\ NamedVariant # null
  /\ LET called == LetValue.tail.type = "CallExpression"
         valued == NamedVariant.valueType # null
     IN  \/ valued /\ ~called
         \/ valued /\ called /\ Len(LetValue.tail.args) # 1
         \/ valued /\ called /\ Len(LetValue.tail.args) = 1
              /\ LetValue.tail.args[1].annotation.name # NamedVariant.valueType.name
         \/ ~valued /\ called /\ Len(LetValue.tail.args) >= 1

\* C23: every misuse of an enum variant's form is rejected by typeCheck with a
\* DiagnosticError, never accepted and never a crash of another kind: a
\* value-bearing variant named without the call form, called with no or
\* several arguments or with an argument of the wrong type, and a unit
\* variant called with an argument, as in Maybe::None(1_i32).
\* (For the unit variant expectType reads the type of the null valueType.)
C23_VariantMisuseIsADiagnostic ==
  (MisusesVariantForm /\ TypeChecked) =>
    /\ ~Accepted
    /\ diag.error.kind = "DiagnosticError"


\* let x: Maybe = Maybe::V, with V a unit variant of the declared enum.
NamesUnitVariant ==
  /\ Parsed
  /\ program.body[1].type = "EnumDeclaration"
  /\ LetValue.type = "ExpressionPath"
  /\ LetValue.head.name = program.body[1].id.name
  /\ LetValue.tail.type = "Identifier"
  /\ NamedVariant # null
  /\ NamedVariant.valueType = null

\* The zero-based position of the named variant in the declaration.
DeclaredPosition ==
  (CHOOSE i \in 1..Len(program.body[1].variants) :
     program.body[1].variants[i].id.name = LetValue.tail.name) - 1

\* The prologue of a function: global.get bsp, global.get sp, global.set bsp.
Prologue ==
  ExpApply(ExpApply(ExpApply(<<>>, Call("globalGet", << 0 >>)),
                    Call("globalGet", << 1 >>)),
           Call("globalSet", << 0 >>))

\* The instructions of test() after its prologue.
AfterPrologue == LET body == wasm.ctx.code[Len(wasm.ctx.code)].exp
                 IN  SubSeq(body, Len(Prologue) + 1, Len(body))

\* C24: for every enum E and every unit variant V of E the emitter lowers the
\* path E::V to i32.const k, k the zero-based position of V in E's
\* declaration; also when a value-bearing variant is declared before V.
\* (findIndex's callback throws on the value-bearing variant before it gets
\* to V.)
C24_UnitVariantIsItsPosition ==
  (NamesUnitVariant /\ (Accepted /\ stage # "typed")) =>
    /\ stage \in { "emitted", "ran" }
    /\ SubSeq(AfterPrologue, 1, 2) = << Opcode("i32Const"), DeclaredPosition >>


PrimitiveTypes == { "i32", "f64", "bool" }

\* The expressions of a function's body, the blocks aside (the type table
\* has no entry for a block).
ExpressionsOf(function) ==
  { node \in Visited(function.body) :
      node.type \in ExpressionNodeTypes \ { "BlockExpression" } }

\* The functions of the program whose expressions all have a primitive type.
PrimitiveFunctions ==
  { function \in { program.body[i] : i \in 1..Len(program.body) } :
      /\ function.type = "FunctionDeclaration"
      /\ \A node \in ExpressionsOf(function) :
           nodeTypes[node.nodeId].type \in PrimitiveTypes }

\* C25: computeLayout records for each function the bytes of its
\* aggregate-typed expressions only: expressions whose type is i32, f64 or
\* bool contribute 0, so a function whose body holds only primitive-typed
\* expressions has the StackSizes entry 0.
\* (sizeOf gives 4 for i32 and bool and 8 for f64, and measure adds them up.)
C25_PrimitiveExpressionsTakeNoStack ==
  memoryLayout.at = "returned" =>
    \A function \in PrimitiveFunctions :
      /\ function.nodeId \in DOMAIN memoryLayout._stackSizes
      /\ memoryLayout._stackSizes[function.nodeId] = 0


\* The nodes of a tree.
RECURSIVE AllNodes(_)
AllNodes(node) ==
  IF node = null THEN {}
  ELSE { node } \cup UNION { AllNodes(Children(node)[i]) : i \in 1..Len(Children(node)) }

\* Whether parse has been called.
ParseReturned == stage # "lexed"

\* C26: every AST node the parser returns has a source span, the union of the
\* span of its first token and the span of the last token consumed for it,
\* for every input the parser accepts; the empty program (the token list
\* holding EOF only) is accepted and parses to a Program with an empty body.
\* (For the empty program locToPrev reads the token before the first.)
C26_EveryNodeHasItsSpan ==
  ParseReturned =>
    /\ Len(tokens) = 1 => (Parsed /\ program.type = "Program" /\ program.body = <<>>)
    /\ Parsed =>
         /\ program.loc = union(tokens[1].loc, tokens[Len(tokens) - 1].loc)
         /\ \A node \in AllNodes(program) :
              \E i \in 1..Len(tokens) : \E j \in i..Len(tokens) :
                node.loc = union(tokens[i].loc, tokens[j].loc)


\* The table n steps up the parent chain of a table, 0 when the chain ends
\* before.
RECURSIVE Up(_, _, _)
Up(tables, this, n) ==
  IF this = 0 \/ n = 0 THEN this ELSE Up(tables, tables[this]._parent, n - 1)

\* The distances at which a table of the parent chain defines the name.
DefinedAt(tables, this, name) ==
  { n \in 0..Len(tables) :
      Up(tables, this, n) # 0 /\ name \in DOMAIN tables[Up(tables, this, n)]._variables }

\* The binding of the nearest table of the chain that defines the name.
NearestBinding(tables, this, name) ==
  IF DefinedAt(tables, this, name) = {} THEN null
  ELSE LET nearest == CHOOSE n \in DefinedAt(tables, this, name) :
                        \A m \in DefinedAt(tables, this, name) : n <= m
       IN  tables[Up(tables, this, nearest)]._variables[name]

\* define(name, type) on a table changes the binding of name in that table
\* and nothing else: no other binding of it, no other table, no parent.
DefineWritesOwnScopeOnly ==
  \A this \in 1..MaxScopes, name \in SymbolNames, type \in SymbolTypes :
    defineCall(this, name, type) =>
      /\ Len(symbols'.tables) = Len(symbols.tables)
      /\ \A k \in 1..Len(symbols.tables) :
           /\ symbols'.tables[k]._parent = symbols.tables[k]._parent
           /\ k # this => symbols'.tables[k] = symbols.tables[k]
      /\ DOMAIN symbols'.tables[this]._variables
           = DOMAIN symbols.tables[this]._variables \cup { name }
      /\ symbols'.tables[this]._variables[name] = type
      /\ \A other \in DOMAIN symbols.tables[this]._variables \ { name } :
           symbols'.tables[this]._variables[other]
             = symbols.tables[this]._variables[other]

\* lookup(name) returns the nearest binding, or null; child() makes a table
\* with no bindings whose parent is the table it was called on.
LookupFindsNearest ==
  /\ symbols.at = "made" /\ symbols.ret.op = "lookup" =>
       symbols.ret.result
         = NearestBinding(symbols.tables, symbols.ret.this, symbols.ret.name)
  /\ symbols.at = "made" /\ symbols.ret.op = "child" =>
       symbols.tables[Len(symbols.tables)] = SymbolTable(symbols.ret.this)

\* The names f binds, its parameter a and its `let` y, are not defined while
\* test() is checked; z, bound in test(), is.
FunctionScopesAreSeparate ==
  \A name \in ScopeNames :
    (tokens = TokensOf(ScopeProgram(name)) /\ TypeChecked) =>
      IF name \in { "a", "y" }
        THEN /\ diag.at = "typeCheck"
             /\ diag.error.message = "Undefined variable: " \o name
        ELSE Accepted

\* C27: for any tree of SymbolTable scopes and any sequence of define, lookup
\* and child calls, define(name, t) changes only the bindings of the scope it
\* is called on and leaves every ancestor and sibling unchanged, and
\* lookup(name) returns the binding of the nearest scope on the parent chain
\* that defines name, or null if none does; hence the names one function's
\* parameters and `let`s bind are not visible while another is checked.
C27_DefineIsLocalLookupFindsNearest ==
  /\ [][DefineWritesOwnScopeOnly]_vars
  /\ [](LookupFindsNearest /\ FunctionScopesAreSeparate)

\* A lookup in a scope with a sibling that binds the name found the parent's
\* binding, which differs from the sibling's.
C27_Witness ==
  /\ symbols.at = "made"
  /\ symbols.ret.op = "lookup"
  /\ symbols.ret.this = 3
  /\ symbols.tables[2]._parent = 1 /\ symbols.tables[3]._parent = 1
  /\ symbols.ret.name \in DOMAIN symbols.tables[1]._variables
  /\ symbols.ret.name \in DOMAIN symbols.tables[2]._variables
  /\ symbols.ret.name \notin DOMAIN symbols.tables[3]._variables
  /\ symbols.tables[1]._variables[symbols.ret.name]
       # symbols.tables[2]._variables[symbols.ret.name]
  /\ symbols.ret.result = symbols.tables[1]._variables[symbols.ret.name]

\* The instructions of a function's code with the depth of the operand stack
\* before and after each: [op, before, pops, after].
RECURSIVE StackTrace(_, _, _, _)
StackTrace(ctx, code, pos, depth) ==
  IF pos > Len(code) THEN <<>>
  ELSE
    LET op == code[pos]
        u  == ReadU32(code, pos + 1, 1, 0)
        u2 == ReadU32(code, u.next, 1, 0)
        pops == CASE op \in { 26, 33, 34, 36, 40 } -> 1
                  [] op \in { 54, 70, 106, 107, 108 } -> 2
                  [] op = 16 -> Len(ctx.code[u.value + 1]._params)
                  [] OTHER -> 0
        pushes == CASE op \in { 32, 34, 35, 40, 65, 70, 106, 107, 108 } -> 1
                    [] op = 16 -> Len(ctx.code[u.value + 1]._results)
                    [] OTHER -> 0
        following == CASE op \in { 16, 32, 33, 34, 35, 36 } -> u.next
                  [] op = 65 -> ReadI32(code, pos + 1, 1, 0).next
                  [] op \in { 40, 54 } -> u2.next
                  [] OTHER -> pos + 1
    IN  << [op |-> op, before |-> depth, pops |-> pops,
            after |-> depth - pops + pushes] >>
          \o StackTrace(ctx, code, following, depth - pops + pushes)

\* The functions the program declares, in the order emitProgram declares them.
FunctionDeclarations ==
  SelectSeq(program.body, LAMBDA d : d.type = "FunctionDeclaration")

\* The instructions of the k-th function between its prologue (three
\* instructions, which leave the saved base pointer) and its epilogue (three).
BodyTrace(k) ==
  LET all == StackTrace(wasm.ctx, wasm.ctx.code[k].exp, 1, 0)
  IN  SubSeq(all, 4, Len(all) - 3)

\* The instruction the code of an expression form ends with.
LastOpOf(node) ==
  CASE node.type = "VariableDeclaration" -> Opcode("localTee")
    [] node.type = "Identifier"          -> Opcode("localGet")
    [] node.type = "CallExpression"      -> Opcode("call")
    [] node.type = "StructConstruction"  -> Opcode("globalGet")
    [] node.type = "MemberExpression"    -> Opcode("i32Load")
    [] node.type = "BinaryExpression" ->
         (CASE node.operator = "+"  -> Opcode("i32Add")
            [] node.operator = "*"  -> Opcode("i32Mul")
            [] node.operator = "==" -> Opcode("i32Eq"))
    [] OTHER -> Opcode("i32Const")

\* Where the code of the j-th of n children ends in the body: before the j-th
\* drop, and for the last child at the end of the body.
EndOfChild(body, j, n) ==
  LET drops == { i \in 1..Len(body) : body[i].op = Opcode("drop") }
  IN  IF j = n THEN Len(body)
      ELSE (CHOOSE i \in drops : Cardinality({ d \in drops : d < i }) = j - 1) - 1

Emitted == stage \in { "emitted", "ran" }

\* C28: for a block with n >= 1 child expressions the emitted code is the
\* children's code in source order with exactly n-1 drop instructions, one
\* right after each child but the last; every child leaves one value, so the
\* block leaves exactly one value, and between the prologue and the epilogue
\* no instruction pops below the value the prologue left.
C28_BlockDropsAllButTheLast ==
  Emitted =>
    \A k \in 1..Len(FunctionDeclarations) :
      LET children == FunctionDeclarations[k].body.expressions
          n        == Len(children)
          body     == BodyTrace(k)
          drops    == { i \in 1..Len(body) : body[i].op = Opcode("drop") }
      IN  n >= 1 =>
            /\ Cardinality(drops) = n - 1
            /\ \A i \in 1..Len(body) : body[i].before - body[i].pops >= 1
            /\ \A j \in 1..n :
                 LET last == EndOfChild(body, j, n)
                 IN  /\ last >= 1
                     /\ body[last].op = LastOpOf(children[j])
                     /\ body[last].after = 2
                     /\ j < n => body[last + 1].after = 1
            /\ body[Len(body)].after = 2

\* A function whose block has three children, a `let`, a call and a member
\* expression, was emitted with two drops.
C28_Witness ==
  /\ Emitted
  /\ \E k \in 1..Len(FunctionDeclarations) :
       LET children == FunctionDeclarations[k].body.expressions
       IN  /\ Len(children) = 3
           /\ children[1].type = "VariableDeclaration"
           /\ children[2].type = "CallExpression"
           /\ children[3].type = "MemberExpression"
           /\ Cardinality({ i \in 1..Len(BodyTrace(k)) :
                              BodyTrace(k)[i].op = Opcode("drop") }) = 2

\* The engine after it ran test(): its locals and the memory cells stored to.
TestMachine ==
  LET found == { i \in 1..Len(wasm.ctx.exports) :
                   wasm.ctx.exports[i].name = charCodes("test") }
      func  == wasm.ctx.code[wasm.ctx.exports[CHOOSE i \in found : TRUE].index + 1]
  IN  Exec(wasm.ctx,
           [stack |-> <<>>,
            locals |-> [i \in 1..Len(func._locals) |-> 0],
            globals |-> [i \in 1..Len(wasm.ctx.globals) |->
                           ConstValue(wasm.ctx.globals[i].init)],
            mem |-> <<>>, calls |-> <<>>, trap |-> FALSE],
           func.exp, 1)

\* The `let o: Outer = Outer { ... }` of test(), the position of its local
\* and the struct type the type checker gave the construction.
IsNested == \E first \in { "a", "b" }, how \in NestedHows :
              tokens = TokensOf(NestedProgram(first, how))
TestChildren == program.body[Len(program.body)].body.expressions
OuterLet ==
  LET children == TestChildren
  IN  CHOOSE k \in 1..Len(children) :
        children[k].type = "VariableDeclaration" /\ children[k].name.name = "o"
OuterType == nodeTypes[TestChildren[OuterLet].value.nodeId]
OffsetOf(name) ==
  LET fields == OuterType.fields
  IN  fields[CHOOSE i \in 1..Len(fields) : fields[i].name = name].offset

\* The cell at an address holds a value.
Holds(M, address, value) ==
  address \in DOMAIN M.mem /\ M.mem[address] = value

\* C29: the fields of a constructed struct are stored relative to the base
\* address of that struct and the construction's result is that base, also
\* when a field's value is a struct construction or a call that constructs a
\* struct: after  let o: Outer = Outer { b: 2_i32, a: <an Inner with v = 1> }
\* the cell at o + offset(b) holds 2 and the cell at o + offset(a) holds the
\* address of a cell holding 1.
C29_FieldsAreStoredAtTheOuterBase ==
  (IsNested /\ stage = "ran") =>
    LET M    == TestMachine
        base == M.locals[OuterLet]
    IN  /\ testResult.kind = "value"
        /\ Holds(M, base + OffsetOf("b"), 2)
        /\ base + OffsetOf("a") \in DOMAIN M.mem
        /\ Holds(M, M.mem[base + OffsetOf("a")], 1)

\* The place of the EOF token in the token list, counted from 0.
EOFIndex == Len(tokens) - 1

ParseEnded == parser.at \in { "returned", "threw" }

\* The loops of the parser, by what an iteration parses and the token that
\* ends the loop.
ParserLoops ==
  { "Definition", "StructField }", "Parameter )", "Expression }", "Expression )",
    "StructFieldConstruction }", "Variant }", "infix" }

\* Every iteration of a loop read a token or threw, and when parse ended the
\* read index was not past the EOF token, which is the last token and the
\* only EOF.
ParseStaysWithinTheTokens ==
  ParseEnded =>
    /\ \A i \in parser.iterated :
         i.loop \in ParserLoops /\ (i.consumed \/ i.threw)
    /\ parser._nextIndex <= EOFIndex
    /\ \A k \in 1..Len(tokens) : tokens[k].type = "EOF" <=> k = EOFIndex + 1
    /\ parser.at = "returned" => parser._nextIndex = EOFIndex

\* C30: Parser.parse ends on every token list lex returns: every iteration of
\* every parsing loop reads at least one token or raises, the EOF token is
\* never read past, and _nextIndex never exceeds the index of the EOF token.
\* (A call of parse is one step, which ends with a result or an error thrown;
\* the iterations are counted by the tokens they read, and there are no more
\* of those than EOFIndex.)
C30_ParseEndsWithinTheTokens ==
  /\ stage # "lexed" => ParseEnded
  /\ ParseStaysWithinTheTokens

\* A parse returned at the EOF token after iterations of seven of the loops.
C30_Witness ==
  /\ parser.at = "returned"
  /\ parser._nextIndex = EOFIndex
  /\ { "Definition", "StructField }", "Parameter )", "Expression }",
       "Expression )", "StructFieldConstruction }", "infix" }
       \subseteq { i.loop : i \in parser.iterated }

====
